---- MODULE Spec2Model ----
(***************************************************************************)
(* A model of the graph container (src/pge/graph.py) and of the subgraph   *)
(* transformer (src/graph_def_editor/transform.py).                        *)
(*                                                                         *)
(* Strings that the code inspects character by character (node names,      *)
(* scopes, colocation strings) are sequences of one-character strings, so  *)
(* that lower(), startswith(), slicing and "{}_{}".format() are computed.   *)
(* Strings that the code only compares for equality (op types, frame       *)
(* names, exception classes) are TLA+ strings.                             *)
(*                                                                         *)
(* A Python value that may be None is a sequence of length 0 (None) or 1.  *)
(***************************************************************************)
EXTENDS Integers, Sequences, FiniteSets, TLC

VARIABLES graphs, last

vars == <<graphs, last>>

----------------------------------------------------------------------------
(* Bounds of the model *)

\* Largest number of entries the node table of a graph may hold before the
\* graph operations stop adding to it.
MaxNodes == 3

\* Largest value the version counter may reach through direct calls of
\* increment_version_counter.
MaxVersion == 3

----------------------------------------------------------------------------
(* Python helpers *)

None == <<>>

Some(v) == <<v>>

Range(s) == {s[i] : i \in DOMAIN s}

\* The element of a set of one element. Only({F(st) : st \in {v}}) is F(v)
\* with v computed once before F is applied to it: the statements of the
\* code run one after the other, each on the state the one before left
Only(S) == CHOOSE r \in S : TRUE

\* str.lower() on one character
LowerChar(c) ==
  CASE c = "A" -> "a"
    [] c = "B" -> "b"
    [] c = "F" -> "f"
    [] c = "G" -> "g"
    [] c = "S" -> "s"
    [] c = "X" -> "x"
    [] OTHER -> c

\* str.lower()
Lower(s) == [i \in DOMAIN s |-> LowerChar(s[i])]

DigitChars == <<"0", "1", "2", "3", "4", "5", "6", "7", "8", "9">>

\* str(i) for a natural number i, as "{}".format(i) prints it
RECURSIVE IntToStr(_)
IntToStr(i) ==
  IF i < 10 THEN <<DigitChars[i + 1]>>
  ELSE IntToStr(i \div 10) \o <<DigitChars[(i % 10) + 1]>>

\* "{}_{}".format(name, i)
FormatNameI(name, i) == name \o <<"_">> \o IntToStr(i)

\* str.startswith
StartsWith(s, prefix) ==
  /\ Len(prefix) <= Len(s)
  /\ SubSeq(s, 1, Len(prefix)) = prefix

\* s[n:]
DropFirst(s, n) == IF n >= Len(s) THEN <<>> ELSE SubSeq(s, n + 1, Len(s))

\* s[:-1]
DropLast(s) == IF Len(s) = 0 THEN <<>> ELSE SubSeq(s, 1, Len(s) - 1)

\* list.index(v): the first position holding v, 0 when absent (ValueError)
IndexOf(s, v) ==
  IF \E i \in DOMAIN s : s[i] = v
  THEN CHOOSE i \in DOMAIN s : s[i] = v /\ \A j \in 1..(i - 1) : s[j] # v
  ELSE 0

----------------------------------------------------------------------------
(* Nodes and tensors *)

NoAttrs == [frame_name |-> None, colocation |-> None]

\* node.Node(graph, id, name=name, op_name=op_name): an empty node
Node(g, id, name, op_name) ==
  [ graph          |-> g,
    id_in_graph    |-> id,
    name           |-> name,
    op_type        |-> op_name,
    device         |-> "",
    attrs          |-> NoAttrs,
    inputs         |-> <<>>,
    control_inputs |-> <<>>,
    outputs        |-> <<>> ]

\* The Tensor that is output number value_index of node id of graph g
Tensor(g, id, value_index) ==
  [graph |-> g, node |-> id, value_index |-> value_index]

\* node.outputs as tensors; value_index counts from 0
OutputTensors(n) ==
  [i \in DOMAIN n.outputs |-> Tensor(n.graph, n.id_in_graph, i - 1)]

----------------------------------------------------------------------------
(* Graph *)

\* Graph.__init__ with graph=None: an empty graph
EmptyGraph(g) ==
  [ gid                 |-> g,
    version             |-> 0,
    frozen              |-> FALSE,
    next_id             |-> 1,
    node_name_to_node   |-> <<>>,
    node_to_frame_names |-> None,
    frame_name_to_nodes |-> None ]

\* dict keys of _node_name_to_node, in insertion order
NodeNames(G) == [i \in DOMAIN G.node_name_to_node |-> G.node_name_to_node[i].name]

\* Graph.nodes: the dict values, in insertion order
Nodes(G) == G.node_name_to_node

NodeIds(G) == {G.node_name_to_node[i].id_in_graph : i \in DOMAIN G.node_name_to_node}

NodeById(G, id) ==
  LET i == CHOOSE i \in DOMAIN G.node_name_to_node :
             G.node_name_to_node[i].id_in_graph = id
  IN G.node_name_to_node[i]

\* self._node_name_to_node[name] = ret : a dict keeps the position of a key it
\* already holds and appends a new key
DictSet(table, name, ret) ==
  IF \E i \in DOMAIN table : table[i].name = name
  THEN [i \in DOMAIN table |-> IF table[i].name = name THEN ret ELSE table[i]]
  ELSE Append(table, ret)

\* Graph.contains_node: exact string match
contains_node(G, name) == \E i \in DOMAIN G.node_name_to_node :
                             G.node_name_to_node[i].name = name

\* _name_in_use as it would be if it compared the names as they are written
_name_in_use_exact(G, name) ==
  name \in {NodeNames(G)[i] : i \in DOMAIN NodeNames(G)}

\* Graph._name_in_use: lowercase match against the lowercased keys
_name_in_use(G, name) ==
  Lower(name) \in {Lower(NodeNames(G)[i]) : i \in DOMAIN NodeNames(G)}

\* the while loop of Graph.unique_name, entered with candidate number i
RECURSIVE unique_name_loop(_, _, _)
unique_name_loop(G, name, i) ==
  IF _name_in_use(G, FormatNameI(name, i))
  THEN unique_name_loop(G, name, i + 1)
  ELSE FormatNameI(name, i)

\* unique_name as it would be if it appended "_1" without looking whether
\* that name is in use
unique_name_no_loop(G, name) ==
  IF ~ _name_in_use(G, name) THEN name
  ELSE FormatNameI(name, 1)

\* Graph.unique_name
unique_name(G, name) ==
  IF ~ _name_in_use(G, name) THEN name
  ELSE unique_name_loop(G, name, 1)

\* Graph._get_next_id: the id handed out, and the graph afterwards
_get_next_id(G) == [ret |-> G.next_id, G |-> [G EXCEPT !.next_id = G.next_id + 1]]

\* increment_version_counter as it would be if it looked at the frozen flag
\* after counting
increment_version_counter_late_check(G) ==
  [G |-> [G EXCEPT !.version = G.version + 1,
                   !.node_to_frame_names = None,
                   !.frame_name_to_nodes = None],
   result |-> IF G.frozen THEN "RuntimeError" ELSE "ok"]

\* Graph.increment_version_counter
increment_version_counter(G) ==
  IF G.frozen
  THEN [G |-> G, result |-> "RuntimeError"]
  ELSE [G |-> [G EXCEPT !.version = G.version + 1,
                        !.node_to_frame_names = None,
                        !.frame_name_to_nodes = None],
        result |-> "ok"]

\* add_node as it would be if it drew the node id before it looked whether
\* the name is in use
add_node_id_first(G, name, op_name, uniquify_name) ==
  LET nid == _get_next_id(G)
  IN IF ~uniquify_name /\ _name_in_use(G, name)
     THEN [G |-> nid.G, result |-> "ValueError", node |-> 0]
     ELSE LET name1 == IF uniquify_name THEN unique_name(G, name) ELSE name
              ret   == Node(G.gid, nid.ret, name1, op_name)
              G2    == [nid.G EXCEPT !.node_name_to_node = DictSet(@, name1, ret)]
              inc   == increment_version_counter(G2)
          IN [G      |-> inc.G,
              result |-> inc.result,
              node   |-> IF inc.result = "ok" THEN nid.ret ELSE 0]

\* Graph.add_node: the graph afterwards, how the call ended, and the id of
\* the node it returned (0 when it raised)
add_node(G, name, op_name, uniquify_name) ==
  IF ~uniquify_name /\ _name_in_use(G, name)
  THEN [G |-> G, result |-> "ValueError", node |-> 0]
  ELSE LET name1 == IF uniquify_name THEN unique_name(G, name) ELSE name
           nid   == _get_next_id(G)
           ret   == Node(G.gid, nid.ret, name1, op_name)
           G2    == [nid.G EXCEPT !.node_name_to_node = DictSet(@, name1, ret)]
           inc   == increment_version_counter(G2)
       IN [G      |-> inc.G,
           result |-> inc.result,
           node   |-> IF inc.result = "ok" THEN nid.ret ELSE 0]

\* Replace, in the node table, the node that has n's id by n
PutNode(G, n) ==
  [G EXCEPT !.node_name_to_node =
     [i \in DOMAIN @ |-> IF @[i].id_in_graph = n.id_in_graph THEN n ELSE @[i]]]

\* add_node_from_node_def as it would be if it counted a version of its own
\* after add_node has counted one
add_node_from_node_def_counts_again(G, node_def) ==
  LET r == add_node(G, node_def.name, node_def.op, TRUE)
  IN IF r.result # "ok" THEN r
     ELSE LET ret == NodeById(r.G, r.node)
              n1  == [ret EXCEPT !.device = node_def.device,
                                 !.attrs  = node_def.attr]
          IN [r EXCEPT !.G = increment_version_counter(PutNode(r.G, n1)).G]

\* Graph.add_node_from_node_def (the second definition of that name, which
\* is the one Python keeps), called with set_inputs=False
add_node_from_node_def(G, node_def) ==
  LET r == add_node(G, node_def.name, node_def.op, TRUE)
  IN IF r.result # "ok" THEN r
     ELSE LET ret == NodeById(r.G, r.node)
              n1  == [ret EXCEPT !.device = node_def.device,
                                 !.attrs  = node_def.attr]
          IN [r EXCEPT !.G = PutNode(r.G, n1)]

----------------------------------------------------------------------------
(* Mutators of a node, and the construction of a graph from a wire record *)

\* A reference to node id of graph g
NodeRef(g, id) == [graph |-> g, node |-> id]

\* Graph.__getitem__(name): the node of that exact name
NodeByName(G, name) ==
  LET i == CHOOSE i \in DOMAIN G.node_name_to_node :
             G.node_name_to_node[i].name = name
  IN G.node_name_to_node[i]

\* Node.set_outputs_from_pairs(pairs) on node id of G
set_outputs_from_pairs(G, id, pairs) ==
  increment_version_counter(
    PutNode(G, [NodeById(G, id) EXCEPT !.outputs = pairs]))

\* Node.set_inputs(new_inputs) on node id of G
set_inputs(G, id, new_inputs) ==
  increment_version_counter(
    PutNode(G, [NodeById(G, id) EXCEPT !.inputs = new_inputs]))

\* Node.set_control_inputs(new_control_inputs) on node id of G
set_control_inputs(G, id, new_control_inputs) ==
  increment_version_counter(
    PutNode(G, [NodeById(G, id) EXCEPT !.control_inputs = new_control_inputs]))

\* Node.replace_input(index, new_input) on node id of G; index counts from 1
replace_input(G, id, index, new_input) ==
  increment_version_counter(
    PutNode(G, [NodeById(G, id) EXCEPT !.inputs[index] = new_input]))

\* Node.set_inputs_from_strings(input, set_control_inputs=True) on node id of
\* G: "^name" is a control input, "name:index" a data input
set_inputs_from_strings(G, id, input) ==
  LET IsData(x) == ~x.control
      IsControl(x) == x.control
      data == SelectSeq(input, IsData)
      ctrl == SelectSeq(input, IsControl)
      n1 == [NodeById(G, id) EXCEPT
               !.inputs = [i \in DOMAIN data |->
                  Tensor(G.gid, NodeByName(G, data[i].name).id_in_graph, data[i].index)],
               !.control_inputs = [i \in DOMAIN ctrl |->
                  NodeRef(G.gid, NodeByName(G, ctrl[i].name).id_in_graph)]]
  IN increment_version_counter(PutNode(G, n1))

\* A data input "name:index" and a control input "^name" of a wire record
DataInput(name, index) == [name |-> name, index |-> index, control |-> FALSE]

ControlInput(name) == [name |-> name, index |-> 0, control |-> TRUE]

\* First pass of Graph.__init__: add_node_from_node_def for every record
RECURSIVE InitAddNodes(_, _)
InitAddNodes(G, node_defs) ==
  IF node_defs = <<>> THEN G
  ELSE LET Rest(H) == InitAddNodes(H, Tail(node_defs))
       IN Only({Rest(st) : st \in {add_node_from_node_def(G, Head(node_defs)).G}})

\* Second pass of Graph.__init__: set_outputs_from_pairs(output_map[name])
RECURSIVE InitSetOutputs(_, _)
InitSetOutputs(G, node_defs) ==
  IF node_defs = <<>> THEN G
  ELSE LET Rest(H) == InitSetOutputs(H, Tail(node_defs))
       IN Only({Rest(st) : st \in {set_outputs_from_pairs(G,
                 NodeByName(G, Head(node_defs).name).id_in_graph,
                 Head(node_defs).output_map).G}})

\* Third pass of Graph.__init__: set_inputs_from_strings(node_def.input)
RECURSIVE InitSetInputs(_, _)
InitSetInputs(G, node_defs) ==
  IF node_defs = <<>> THEN G
  ELSE LET Rest(H) == InitSetInputs(H, Tail(node_defs))
       IN Only({Rest(st) : st \in {set_inputs_from_strings(G,
                 NodeByName(G, Head(node_defs).name).id_in_graph,
                 Head(node_defs).input).G}})

\* Graph.__init__(graph_def): graph_def is the list of the node records, each
\* with the output types the engine infers for it (_decode_graph)
GraphFromDef(gid, graph_def) ==
  InitSetInputs(InitSetOutputs(InitAddNodes(EmptyGraph(gid), graph_def),
                               graph_def),
                graph_def)

----------------------------------------------------------------------------
(* Control-flow frame analysis *)

\* The root frame on the stack of frame names (Python's None)
NoFrame == "<None>"

\* Tensor.consumers(): the nodes of the owning graph that have t among their
\* data inputs, found by scanning the nodes of the graph in order
consumers(G, t) ==
  LET Consumes(n) == \E i \in DOMAIN n.inputs : n.inputs[i] = t
      hits == SelectSeq(Nodes(G), Consumes)
  IN [i \in DOMAIN hits |-> hits[i].id_in_graph]

\* new_frame_name_to_nodes.setdefault(frame_name, []).append(cur_node)
SetDefaultAppend(f2n, frame_name, id) ==
  [k \in DOMAIN f2n \cup {frame_name} |->
     IF k = frame_name
     THEN (IF k \in DOMAIN f2n THEN Append(f2n[k], id) ELSE <<id>>)
     ELSE f2n[k]]

\* for frame_name in frame_name_stack: ...setdefault(frame_name, []).append
RECURSIVE RecordUnderFrames(_, _, _)
RecordUnderFrames(f2n, stack, id) ==
  IF stack = <<>> THEN f2n
  ELSE LET Rest(f) == RecordUnderFrames(f, Tail(stack), id)
       IN Only({Rest(st) : st \in {SetDefaultAppend(f2n, Head(stack), id)}})

\* for out_node in <ids>: if out_node not in visited: queue.append; visited.add
RECURSIVE EnqueueUnvisited(_, _)
EnqueueUnvisited(qv, ids) ==
  IF ids = <<>> THEN qv
  ELSE LET Rest(x) == EnqueueUnvisited(x, Tail(ids))
       IN Only({Rest(st) : st \in {IF Head(ids) \in qv.visited THEN qv
               ELSE [queue |-> Append(qv.queue, Head(ids)),
                     visited |-> qv.visited \cup {Head(ids)}]}})

\* for out_tensor in cur_node.outputs: for out_node in out_tensor.consumers()
RECURSIVE EnqueueConsumers(_, _, _)
EnqueueConsumers(G, qv, tensors) ==
  IF tensors = <<>> THEN qv
  ELSE LET Rest(x) == EnqueueConsumers(G, x, Tail(tensors))
       IN Only({Rest(st) : st \in {EnqueueUnvisited(qv, consumers(G, Head(tensors)))}})

\* One iteration of the while loop of _generate_node_to_frame_name on the
\* traversal state s; s.result leaves "ok" when the iteration raises
FrameStep(G, s) ==
  LET cur_node == NodeById(G, Head(s.queue))
      id       == cur_node.id_in_graph
      isEnter  == cur_node.op_type \in {"Enter", "RefEnter"}
      isExit   == cur_node.op_type \in {"Exit", "RefExit"}
  IN IF isEnter /\ cur_node.attrs.frame_name = None
     THEN [s EXCEPT !.result = "ValueError"]
     ELSE IF isExit /\ s.frame_name_stack = <<>>
     THEN [s EXCEPT !.result = "IndexError"]
     ELSE
       LET stack1 == IF isEnter
                     THEN Append(s.frame_name_stack, cur_node.attrs.frame_name[1])
                     ELSE IF isExit THEN DropLast(s.frame_name_stack)
                     ELSE s.frame_name_stack
           tuple1 == IF isEnter \/ isExit THEN stack1 ELSE s.frame_name_tuple
           n2f1   == [k \in DOMAIN s.new_node_to_frame_names \cup {id} |->
                        IF k = id THEN tuple1 ELSE s.new_node_to_frame_names[k]]
           f2n1   == RecordUnderFrames(s.new_frame_name_to_nodes, stack1, id)
           qv     == EnqueueConsumers(G,
                       [queue |-> Tail(s.queue), visited |-> s.visited],
                       OutputTensors(cur_node))
       IN [ result                  |-> "ok",
            queue                   |-> qv.queue,
            visited                 |-> qv.visited,
            frame_name_stack        |-> stack1,
            frame_name_tuple        |-> tuple1,
            new_node_to_frame_names |-> n2f1,
            new_frame_name_to_nodes |-> f2n1,
            order                   |-> Append(s.order, id) ]

\* while len(queue) > 0
RECURSIVE FrameLoop(_, _)
FrameLoop(G, s) ==
  IF s.queue = <<>> \/ s.result # "ok" THEN s
  ELSE LET Rest(x) == FrameLoop(G, x)
       IN Only({Rest(st) : st \in {FrameStep(G, s)}})

\* The traversal state before the loop: the queue holds the nodes without
\* data inputs, in the order of Graph.nodes
FrameStart(G) ==
  LET IsRoot(n) == Len(n.inputs) = 0
      roots == SelectSeq(Nodes(G), IsRoot)
      queue == [i \in DOMAIN roots |-> roots[i].id_in_graph]
  IN [ result                  |-> "ok",
       queue                   |-> queue,
       visited                 |-> Range(queue),
       frame_name_stack        |-> <<NoFrame>>,
       frame_name_tuple        |-> <<>>,
       new_node_to_frame_names |-> <<>>,
       new_frame_name_to_nodes |-> <<>>,
       order                   |-> <<>> ]

\* Graph._generate_node_to_frame_name: the graph afterwards and how it ended
_generate_node_to_frame_name(G) ==
  LET s == FrameLoop(G, FrameStart(G))
  IN IF s.result # "ok" THEN [G |-> G, result |-> s.result]
     ELSE [G |-> [G EXCEPT
                    !.node_to_frame_names = Some(s.new_node_to_frame_names),
                    !.frame_name_to_nodes = Some(s.new_frame_name_to_nodes)],
           result |-> "ok"]

\* if self._node_to_frame_names is None: self._generate_node_to_frame_name()
EnsureFrames(G) ==
  IF G.node_to_frame_names = None THEN _generate_node_to_frame_name(G)
  ELSE [G |-> G, result |-> "ok"]

\* Graph.node_to_frame_names(n), n given by its id
node_to_frame_names(G, id) ==
  LET e == EnsureFrames(G)
  IN IF e.result # "ok" THEN [G |-> e.G, result |-> e.result, ret |-> <<>>]
     ELSE IF id \notin DOMAIN e.G.node_to_frame_names[1]
     THEN [G |-> e.G, result |-> "KeyError", ret |-> <<>>]
     ELSE [G |-> e.G, result |-> "ok", ret |-> e.G.node_to_frame_names[1][id]]

\* Graph.frame_name_to_nodes(frame_name)
frame_name_to_nodes(G, frame_name) ==
  LET e == EnsureFrames(G)
  IN IF e.result # "ok" THEN [G |-> e.G, result |-> e.result, ret |-> <<>>]
     ELSE IF frame_name \notin DOMAIN e.G.frame_name_to_nodes[1]
     THEN [G |-> e.G, result |-> "KeyError", ret |-> <<>>]
     ELSE [G |-> e.G, result |-> "ok", ret |-> e.G.frame_name_to_nodes[1][frame_name]]

----------------------------------------------------------------------------
(* The graph container under a sequence of calls *)

\* The graph the calls are made on, and a second graph
SRC == 1

DST == 2

GraphIds == {SRC, DST}

\* Names the calls are made with
Names == { <<"a">>, <<"A">>, <<"a", "_", "1">> }

\* Wire records handed to add_node_from_node_def
NodeDefs ==
  { [name |-> <<"a">>, op |-> "Enter", device |-> "",
     attr |-> [frame_name |-> Some("loop1"), colocation |-> None]],
    [name |-> <<"b">>, op |-> "Exit", device |-> "", attr |-> NoAttrs] }

\* What the last call was and how it ended
NoCall ==
  [ op         |-> "init",
    name       |-> <<>>,
    uniquify   |-> FALSE,
    result     |-> "ok",
    ret_name   |-> <<>>,
    ret_node   |-> 0,
    ret_bool   |-> FALSE,
    ret_frames |-> <<>>,
    ret_nodes  |-> <<>> ]

Init ==
  /\ graphs = [g \in GraphIds |-> EmptyGraph(g)]
  /\ last = NoCall

\* g.add_node(name, "Const", uniquify_name)
AddNode(name, uniquify_name) ==
  /\ Len(graphs[SRC].node_name_to_node) < MaxNodes
  /\ LET r == add_node(graphs[SRC], name, "Const", uniquify_name)
     IN /\ graphs' = [graphs EXCEPT ![SRC] = r.G]
        /\ last' = [NoCall EXCEPT !.op = "add_node", !.name = name,
                                  !.uniquify = uniquify_name,
                                  !.result = r.result, !.ret_node = r.node]

\* g.add_node_from_node_def(node_def)
AddNodeFromNodeDef(node_def) ==
  /\ Len(graphs[SRC].node_name_to_node) < MaxNodes
  /\ LET r == add_node_from_node_def(graphs[SRC], node_def)
     IN /\ graphs' = [graphs EXCEPT ![SRC] = r.G]
        /\ last' = [NoCall EXCEPT !.op = "add_node_from_node_def",
                                  !.name = node_def.name, !.uniquify = TRUE,
                                  !.result = r.result, !.ret_node = r.node]

\* g.frozen = value
SetFrozen(value) ==
  /\ graphs' = [graphs EXCEPT ![SRC].frozen = value]
  /\ last' = [NoCall EXCEPT !.op = "set_frozen", !.ret_bool = value]

\* g.increment_version_counter(), as the mutators of a node call it
IncrementVersionCounter ==
  /\ graphs[SRC].version < MaxVersion
  /\ LET r == increment_version_counter(graphs[SRC])
     IN /\ graphs' = [graphs EXCEPT ![SRC] = r.G]
        /\ last' = [NoCall EXCEPT !.op = "increment_version_counter",
                                  !.result = r.result]

\* g.unique_name(name)
UniqueName(name) ==
  /\ last' = [NoCall EXCEPT !.op = "unique_name", !.name = name,
                            !.ret_name = unique_name(graphs[SRC], name)]
  /\ UNCHANGED graphs

\* g.node_to_frame_names(n) for a node n of the graph
NodeToFrameNames(id) ==
  /\ id \in NodeIds(graphs[SRC])
  /\ LET r == node_to_frame_names(graphs[SRC], id)
     IN /\ graphs' = [graphs EXCEPT ![SRC] = r.G]
        /\ last' = [NoCall EXCEPT !.op = "node_to_frame_names", !.ret_node = id,
                                  !.result = r.result, !.ret_frames = r.ret]

\* g.frame_name_to_nodes(frame_name)
FrameNameToNodes(frame_name) ==
  /\ LET r == frame_name_to_nodes(graphs[SRC], frame_name)
     IN /\ graphs' = [graphs EXCEPT ![SRC] = r.G]
        /\ last' = [NoCall EXCEPT !.op = "frame_name_to_nodes",
                                  !.ret_frames = <<frame_name>>,
                                  !.result = r.result, !.ret_nodes = r.ret]

Next ==
  \/ \E name \in Names, uniquify_name \in BOOLEAN : AddNode(name, uniquify_name)
  \/ \E node_def \in NodeDefs : AddNodeFromNodeDef(node_def)
  \/ \E value \in BOOLEAN : SetFrozen(value)
  \/ IncrementVersionCounter
  \/ \E name \in Names : UniqueName(name)

Spec == Init /\ [][Next]_vars

----------------------------------------------------------------------------
(* Properties of the graph container, checked under Spec *)

\* The graph the calls of Spec are made on
g == graphs[SRC]

\* The step is a call of add_node, made directly or by add_node_from_node_def
IsAddNodeCall(l) == l.op \in {"add_node", "add_node_from_node_def"}

\* Some key of the node table equals name when case is ignored
TakenIgnoringCase(G, name) ==
  \E i \in DOMAIN G.node_name_to_node :
     Lower(G.node_name_to_node[i].name) = Lower(name)

\* C1: whatever calls of add_node and add_node_from_node_def were made, and
\* however each ended, no two entries of the node table have names that are
\* equal when case is ignored.
C1_NamesUniqueIgnoringCase ==
  \A i, j \in DOMAIN g.node_name_to_node :
     i # j => Lower(g.node_name_to_node[i].name) # Lower(g.node_name_to_node[j].name)

\* C1 witness: "A" was added while "a" was in the table and was renamed, and
\* the last call of add_node failed.
C1_Witness ==
  /\ IsAddNodeCall(last)
  /\ last.result # "ok"
  /\ \E i, j \in DOMAIN g.node_name_to_node :
        /\ g.node_name_to_node[i].name = <<"a">>
        /\ g.node_name_to_node[j].name = <<"A", "_", "1">>

\* What unique_name(name) has to return on graph G
IsUniqueNameOf(G, name, ret) ==
  IF ~TakenIgnoringCase(G, name) THEN ret = name
  ELSE \E i \in 1..(Len(G.node_name_to_node) + 1) :
          /\ ret = FormatNameI(name, i)
          /\ ~TakenIgnoringCase(G, ret)
          /\ \A j \in 1..(i - 1) : TakenIgnoringCase(G, FormatNameI(name, j))

\* C2: unique_name(name) returns name when no node name equals it ignoring
\* case, and otherwise name_i for the smallest i >= 1 such that name_i equals
\* no node name ignoring case; the call leaves the graph as it was.
C2_UniqueNameSmallestSuffix ==
  [][ last'.op = "unique_name" =>
        /\ graphs' = graphs
        /\ IsUniqueNameOf(g, last'.name, last'.ret_name) ]_vars

\* C2 witness: unique_name("A") was asked with "a" and "a_1" in the table and
\* answered "A_2".
C2_Witness ==
  /\ last.op = "unique_name"
  /\ last.name = <<"A">>
  /\ last.ret_name = <<"A", "_", "2">>
  /\ contains_node(g, <<"a">>)
  /\ contains_node(g, <<"a", "_", "1">>)

\* C3: add_node with uniquify_name false and a name taken ignoring case raises
\* ValueError and leaves the node table, the version and the id counter as
\* they were.
C3_AlreadyExistsLeavesGraph ==
  [][ ( /\ last'.op = "add_node"
        /\ ~last'.uniquify
        /\ TakenIgnoringCase(g, last'.name) )
      => /\ last'.result = "ValueError"
         /\ g'.node_name_to_node = g.node_name_to_node
         /\ g'.version = g.version
         /\ g'.next_id = g.next_id ]_vars

\* C3 witness: add_node("A", uniquify_name=False) was refused because "a" is
\* in the table.
C3_Witness ==
  /\ last.op = "add_node"
  /\ ~last.uniquify
  /\ last.name = <<"A">>
  /\ last.result = "ValueError"
  /\ contains_node(g, <<"a">>)
  /\ ~contains_node(g, <<"A">>)

\* C4, as claimed: every call of add_node raises the version by exactly 1 and
\* no other operation changes the version (the version-increment operation,
\* through which add_node counts, is not held against the claim).
C4_EveryAddNodeBumpsVersion ==
  [][ /\ IsAddNodeCall(last') => g'.version = g.version + 1
      /\ (~IsAddNodeCall(last') /\ last'.op # "increment_version_counter")
           => g'.version = g.version ]_vars

\* C4, amended: a call of add_node that returns raises the version by exactly
\* 1 and one that raises leaves it; increment_version_counter raises it by
\* exactly 1 unless it raises; no other operation changes the version, which
\* therefore never decreases.
C4_ReturningAddNodeBumpsVersion ==
  [][ /\ (IsAddNodeCall(last') /\ last'.result = "ok")
           => g'.version = g.version + 1
      /\ (IsAddNodeCall(last') /\ last'.result # "ok")
           => g'.version = g.version
      /\ (last'.op = "increment_version_counter")
           => g'.version = IF last'.result = "ok" THEN g.version + 1 ELSE g.version
      /\ (~IsAddNodeCall(last') /\ last'.op # "increment_version_counter")
           => g'.version = g.version
      /\ g'.version >= g.version ]_vars

\* C4 witness: a call of add_node has raised after other calls had raised the
\* version.
C4_Witness ==
  /\ IsAddNodeCall(last)
  /\ last.result # "ok"
  /\ g.version >= 2

\* C5, as claimed: on a frozen graph every call of add_node raises
\* RuntimeError and leaves the version as it was.
C5_FrozenAddNodeRuntimeError ==
  [][ (g.frozen /\ last'.op = "add_node")
      => /\ last'.result = "RuntimeError"
         /\ g'.version = g.version ]_vars

\* C5, amended: on a frozen graph every call of add_node raises and leaves the
\* version as it was; it raises RuntimeError, except that a call with
\* uniquify_name false and a name taken ignoring case raises ValueError.
C5_FrozenAddNodeFails ==
  [][ (g.frozen /\ last'.op = "add_node")
      => /\ last'.result =
              IF ~last'.uniquify /\ TakenIgnoringCase(g, last'.name)
              THEN "ValueError" ELSE "RuntimeError"
         /\ g'.version = g.version ]_vars

\* C5 witness: add_node was called on a frozen graph and raised RuntimeError.
C5_Witness ==
  /\ g.frozen
  /\ last.op = "add_node"
  /\ last.result = "RuntimeError"
  /\ g.version >= 1

\* C6: a call of add_node that fails because the graph is frozen leaves the
\* node table as it was: the rejected name is not registered.
C6_FrozenAddNodeLeavesTable ==
  [][ (IsAddNodeCall(last') /\ last'.result = "RuntimeError")
      => /\ g'.node_name_to_node = g.node_name_to_node
         /\ \A name \in Names : contains_node(g', name) = contains_node(g, name)
         /\ \A name \in Names : unique_name(g', name) = unique_name(g, name) ]_vars

----------------------------------------------------------------------------
(* Frame analysis of a graph that holds one while loop *)

\* The (dtype, shape) pair of every output of the graphs below
Float == [dtype |-> "float32", shape |-> <<>>]

\* A wire record with the outputs the engine infers for it
NodeDef(name, op, attr, input, n_outputs) ==
  [ name |-> name, op |-> op, device |-> "", attr |-> attr, input |-> input,
    output_map |-> [i \in 1..n_outputs |-> Float] ]

FrameAttr(frame_name) == [frame_name |-> Some(frame_name), colocation |-> None]

\* The loop: c -> Enter -> Merge -> Switch; Switch:0 -> Exit -> o;
\* Switch:1 -> Identity -> NextIteration -> Merge
LoopC      == NodeDef(<<"c">>, "Const", NoAttrs, <<>>, 1)
LoopEnter  == NodeDef(<<"e">>, "Enter", FrameAttr("loop1"), <<DataInput(<<"c">>, 0)>>, 1)
LoopMerge  == NodeDef(<<"m">>, "Merge", NoAttrs,
                      <<DataInput(<<"e">>, 0), DataInput(<<"n">>, 0)>>, 1)
LoopSwitch == NodeDef(<<"s">>, "Switch", NoAttrs, <<DataInput(<<"m">>, 0)>>, 2)
LoopExit   == NodeDef(<<"x">>, "Exit", NoAttrs, <<DataInput(<<"s">>, 0)>>, 1)
LoopBody   == NodeDef(<<"i">>, "Identity", NoAttrs, <<DataInput(<<"s">>, 1)>>, 1)
LoopNext   == NodeDef(<<"n">>, "NextIteration", NoAttrs, <<DataInput(<<"i">>, 0)>>, 1)
LoopOut    == NodeDef(<<"o">>, "Identity", NoAttrs, <<DataInput(<<"x">>, 0)>>, 1)

\* Two nodes that have nothing to do with the loop: p -> q
OutsideP == NodeDef(<<"p">>, "Const", NoAttrs, <<>>, 1)
OutsideQ == NodeDef(<<"q">>, "Identity", NoAttrs, <<DataInput(<<"p">>, 0)>>, 1)

\* The records of the loop in the orders a wire record lists them
LoopOrders ==
  { <<LoopC, LoopEnter, LoopMerge, LoopSwitch, LoopExit, LoopBody, LoopNext, LoopOut>>,
    <<LoopC, LoopEnter, LoopMerge, LoopSwitch, LoopBody, LoopNext, LoopExit, LoopOut>> }

OutsideOrders == { <<OutsideP, OutsideQ>>, <<OutsideQ, OutsideP>> }

\* The list that holds the records of b at the positions of the set at, in
\* their order, and the records of a at the others, in their order
Interleave(a, b, at) ==
  [k \in 1..(Len(a) + Len(b)) |->
     LET before == Cardinality({j \in at : j < k})
     IN IF k \in at THEN b[before + 1] ELSE a[k - before]]

\* The wire records of the graphs analysed
LoopGraphDefs ==
  { Interleave(a, b, at) :
      a \in LoopOrders, b \in OutsideOrders,
      at \in {x \in SUBSET (1..10) : Cardinality(x) = 2} }

InitFrames ==
  /\ \E graph_def \in LoopGraphDefs :
        graphs = [gid \in GraphIds |->
                    IF gid = SRC THEN GraphFromDef(SRC, graph_def)
                    ELSE EmptyGraph(gid)]
  /\ last = NoCall

NextFrames ==
  \/ \E id \in 1..10 : NodeToFrameNames(id)
  \/ \E frame_name \in {"loop1", NoFrame} : FrameNameToNodes(frame_name)

SpecFrames == InitFrames /\ [][NextFrames]_vars

\* Names of the nodes strictly between the Enter and the Exit of the loop
LoopNodeNames == { <<"m">>, <<"s">>, <<"i">>, <<"n">> }

\* Names of the nodes outside the loop
OutsideNodeNames == { <<"c">>, <<"o">>, <<"p">>, <<"q">> }

\* A frame tuple without the entries that stand for the root frame
WithoutRoot(frames) ==
  LET Named(f) == f # NoFrame
  IN SelectSeq(frames, Named)

\* C7: in a graph with one loop of frame name "loop1", node_to_frame_names
\* maps every node strictly between Enter and Exit to ("loop1",) and every
\* node outside the loop to the root frame, in whatever order the nodes were
\* created; frame_name_to_nodes("loop1") holds every node of the loop and no
\* node outside it.  (A None entry of a tuple is read as the root frame.)
C7_SimpleLoopFrames ==
  /\ (last.op = "node_to_frame_names" /\ last.result = "ok") =>
       LET name == NodeById(g, last.ret_node).name
       IN /\ name \in LoopNodeNames => WithoutRoot(last.ret_frames) = <<"loop1">>
          /\ name \in OutsideNodeNames => WithoutRoot(last.ret_frames) = <<>>
  /\ (last.op = "frame_name_to_nodes" /\ last.ret_frames = <<"loop1">>) =>
       /\ last.result = "ok"
       /\ LET names == {NodeById(g, last.ret_nodes[i]).name : i \in DOMAIN last.ret_nodes}
          IN /\ LoopNodeNames \subseteq names
             /\ names \cap OutsideNodeNames = {}

----------------------------------------------------------------------------
(* The helper layer the transformer calls *)

\* A Python dict, as the sequence of its <<key, value>> items in the order
\* of insertion
Keys(d) == {d[i][1] : i \in DOMAIN d}

\* d[k]
Get(d, k) == d[CHOOSE i \in DOMAIN d : d[i][1] = k][2]

\* d[k] = v
Put(d, k, v) ==
  IF k \in Keys(d)
  THEN [i \in DOMAIN d |-> IF d[i][1] = k THEN <<k, v>> ELSE d[i]]
  ELSE Append(d, <<k, v>>)

\* The concatenation of the sequences of a sequence
RECURSIVE Flatten(_)
Flatten(seqs) ==
  IF seqs = <<>> THEN <<>> ELSE Head(seqs) \o Flatten(Tail(seqs))

\* The sequence without the later occurrences of a value it already holds
RECURSIVE Dedupe(_)
Dedupe(s) ==
  IF s = <<>> THEN <<>>
  ELSE LET front == Dedupe(DropLast(s))
           x == s[Len(s)]
       IN IF x \in Range(front) THEN front ELSE Append(front, x)

\* sorted(ids): the ids of a set in ascending order
RECURSIVE SortedIds(_)
SortedIds(S) ==
  IF S = {} THEN <<>>
  ELSE LET m == CHOOSE x \in S : \A y \in S : x <= y
       IN <<m>> \o SortedIds(S \ {m})

\* util.scope_finalize: a scope that is not empty ends with "/"
scope_finalize(scope) ==
  IF scope # <<>> /\ scope[Len(scope)] # "/" THEN Append(scope, "/") ELSE scope

\* dtype and shape of tensor t, read in the graphs Gs
TensorType(Gs, t) == NodeById(Gs[t.graph], t.node).outputs[t.value_index + 1]

\* util.make_placeholder_from_tensor(g, t, scope=scope, prefix=prefix): a new
\* Placeholder node named scope + prefix (made unique by add_node) in graph
\* G, with one output of the dtype and shape of t
make_placeholder_from_tensor(G, type, scope, prefix) ==
  Only({ IF r.result # "ok" THEN [G |-> r.G, result |-> r.result, ret |-> None]
         ELSE Only({ [G |-> o.G, result |-> o.result,
                      ret |-> IF o.result = "ok" THEN Some(Tensor(G.gid, r.node, 0))
                              ELSE None] :
                     o \in {set_outputs_from_pairs(r.G, r.node, <<type>>)} }) :
         r \in {add_node(G, scope \o prefix, "Placeholder", TRUE)} })

\* subgraph.make_view(ops) / subgraph.SubGraphView(ops): the view of the
\* nodes ops (ids, in the order given) of graph G. inputs: the tensors a
\* node of the view consumes and no node of the view produces, in the order
\* a scan of the input lists meets them; outputs: the tensors a node of the
\* view produces and a node outside the view consumes
make_view(G, ops) ==
  LET inside == Range(ops)
      all_inputs == Flatten([i \in DOMAIN ops |-> NodeById(G, ops[i]).inputs])
      IsOutside(t) == ~(t.graph = G.gid /\ t.node \in inside)
      all_outputs == Flatten([i \in DOMAIN ops |->
                                OutputTensors(NodeById(G, ops[i]))])
      HasOutsideConsumer(t) ==
        \E i \in DOMAIN Nodes(G) :
           /\ Nodes(G)[i].id_in_graph \notin inside
           /\ t \in Range(Nodes(G)[i].inputs)
  IN [ graph   |-> G.gid,
       ops     |-> ops,
       inputs  |-> Dedupe(SelectSeq(all_inputs, IsOutside)),
       outputs |-> SelectSeq(all_outputs, HasOutsideConsumer) ]

\* util.ControlOutputs(graph).get(op): the nodes that have node id among
\* their control inputs
control_outputs(G, id) ==
  {Nodes(G)[i].id_in_graph : i \in
     {j \in DOMAIN Nodes(G) :
        \E k \in DOMAIN Nodes(G)[j].control_inputs :
           Nodes(G)[j].control_inputs[k].node = id}}

\* The nodes that consume an output of node id or have it among their
\* control inputs
NodeSuccessors(G, id) ==
  UNION {Range(consumers(G, OutputTensors(NodeById(G, id))[i])) :
           i \in DOMAIN NodeById(G, id).outputs}
  \cup control_outputs(G, id)

\* The nodes that produce a data input of node id or are among its control
\* inputs
NodePredecessors(G, id) ==
  {NodeById(G, id).inputs[i].node : i \in DOMAIN NodeById(G, id).inputs}
  \cup {NodeById(G, id).control_inputs[i].node :
          i \in DOMAIN NodeById(G, id).control_inputs}

\* select.get_forward_walk_ops: the nodes S and what is downstream of them
RECURSIVE ForwardWalk(_, _)
ForwardWalk(G, S) ==
  LET S1 == S \cup UNION {NodeSuccessors(G, id) : id \in S}
  IN IF S1 = S THEN S ELSE ForwardWalk(G, S1)

\* select.get_backward_walk_ops: the nodes S and what is upstream of them
RECURSIVE BackwardWalk(_, _)
BackwardWalk(G, S) ==
  LET S1 == S \cup UNION {NodePredecessors(G, id) : id \in S}
  IN IF S1 = S THEN S ELSE BackwardWalk(G, S1)

\* select.get_walks_intersection_ops(forward_seed_ts, backward_seed_ts,
\* control_ios=control_ios): the nodes that are downstream of a consumer of
\* a forward seed and upstream of the producer of a backward seed, data and
\* control edges followed alike, in the order of their ids
get_walks_intersection_ops(G, forward_seed_ts, backward_seed_ts) ==
  LET forward_seeds == UNION {Range(consumers(G, forward_seed_ts[i])) :
                                i \in DOMAIN forward_seed_ts}
      backward_seeds == {backward_seed_ts[i].node : i \in DOMAIN backward_seed_ts}
  IN SortedIds(ForwardWalk(G, forward_seeds) \cap BackwardWalk(G, backward_seeds))

----------------------------------------------------------------------------
(* The transformer: working state and handlers *)

\* The names of the two handlers a Transformer may hold as its
\* transform_external_input_handler
ExternalInputHandlers ==
  {"replace_t_with_placeholder_handler", "replace_t_with_replacement_handler"}

\* _TmpInfo.__init__, for the call of a Transformer whose
\* transform_external_input_handler is the one named, on the graphs Gs.
\* Nodes of the source graph are held by their ids. result is "ok" until a
\* step of the call raises, and is the class of the exception from then on
\* (the graphs of the source have no collections)
TmpInfo(Gs, sgv, dst_graph, dst_scope, src_scope, handler, replacement_ts) ==
  [ graphs           |-> Gs,
    result           |-> "ok",
    sgv              |-> sgv,
    sgv_inputs_set   |-> Range(sgv.inputs),
    ops              |-> Range(sgv.ops),
    graph            |-> sgv.graph,
    scope            |-> src_scope,
    graph_           |-> dst_graph,
    scope_           |-> dst_scope,
    transformed_ops  |-> <<>>,
    transformed_ts   |-> <<>>,
    tmp_cyclic_ts    |-> <<>>,
    transform_external_input_handler |-> handler,
    replacement_ts   |-> replacement_ts ]

\* The info after a step raised the exception of class result
Raise(info, result) == [info EXCEPT !.result = result]

\* _TmpInfo.new_name
new_name(info, name) ==
  IF ~StartsWith(name, info.scope)
  THEN [result |-> "ValueError", ret |-> <<>>]
  ELSE [result |-> "ok", ret |-> info.scope_ \o DropFirst(name, Len(info.scope))]

\* A placeholder for t in the destination graph, under the given prefix
PlaceholderFor(info, t, prefix) ==
  Only({ [info |-> [info EXCEPT !.graphs[info.graph_] = p.G, !.result = p.result],
          ret  |-> p.ret] :
         p \in {make_placeholder_from_tensor(info.graphs[info.graph_],
                  TensorType(info.graphs, t), info.scope_, prefix)} })

\* replace_t_with_placeholder_handler as it would be if it handed back the
\* tensor of the source graph
replace_t_with_placeholder_handler_keeps_t(info, t) ==
  [info |-> info, ret |-> Some(t)]

\* replace_t_with_placeholder_handler
replace_t_with_placeholder_handler(info, t) ==
  PlaceholderFor(info, t, <<"geph">>)

\* keep_t_if_possible_handler as it would be if it kept the tensor whatever
\* the graphs are
keep_t_if_possible_handler_keeps_t(info, t) == [info |-> info, ret |-> Some(t)]

\* keep_t_if_possible_handler
keep_t_if_possible_handler(info, t) ==
  IF info.graph = info.graph_ THEN [info |-> info, ret |-> Some(t)]
  ELSE replace_t_with_placeholder_handler(info, t)

\* replace_t_with_replacement_handler of copy_with_input_replacements
replace_t_with_replacement_handler(info, t) ==
  IF t \in Keys(info.replacement_ts)
  THEN [info |-> info, ret |-> Some(Get(info.replacement_ts, t))]
  ELSE keep_t_if_possible_handler(info, t)

\* self.transform_external_input_handler(info, t)
transform_external_input_handler(info, t) ==
  IF info.transform_external_input_handler = "replace_t_with_replacement_handler"
  THEN replace_t_with_replacement_handler(info, t)
  ELSE replace_t_with_placeholder_handler(info, t)

\* transform_op_if_inside_handler as it would be with keep_if_possible=False
transform_op_if_inside_handler_drops_outside(info, op) ==
  IF op.graph = info.graph /\ op.node \in Range(info.sgv.ops)
  THEN Some(Get(info.transformed_ops, op.node))
  ELSE None

\* transform_op_if_inside_handler with keep_if_possible=True, on the
\* reference op to a node: the node to use in its place, or None
transform_op_if_inside_handler(info, op) ==
  IF op.graph = info.graph /\ op.node \in Range(info.sgv.ops)
  THEN Some(Get(info.transformed_ops, op.node))
  ELSE IF info.graph = info.graph_ THEN Some(op)
  ELSE None

\* Transformer._transformed_t. seen holds the tensors of the calls this call
\* is nested in: a call on one of them would repeat that call, on the same
\* info, without end, which Python ends with a RecursionError
RECURSIVE _transformed_t(_, _, _, _)
_transformed_t(info, t, consumer_op, seen) ==
  IF t \in Keys(info.transformed_ts)
  THEN [info |-> info, ret |-> Some(Get(info.transformed_ts, t))]
  ELSE IF t \in info.sgv_inputs_set
  THEN transform_external_input_handler(info, t)
  ELSE IF t.graph = info.graph /\ t.node \in info.ops
  THEN
    IF t \in seen THEN [info |-> Raise(info, "RecursionError"), ret |-> None]
    ELSE
      LET consumer == NodeById(info.graphs[info.graph], consumer_op)
          producer == NodeById(info.graphs[info.graph], t.node)
      IN Only({ IF r.info.result # "ok" THEN r
                ELSE [info |-> [r.info EXCEPT !.tmp_cyclic_ts =
                                  Append(@, <<t, r.ret[1], consumer_op>>)],
                      ret  |-> r.ret] :
                r \in { IF consumer.op_type = "Merge"
                        THEN _transformed_t(info, consumer.inputs[1], consumer_op,
                                            seen \cup {t})
                        ELSE IF producer.op_type = "Enter"
                        THEN IF producer.inputs = <<>>
                             THEN [info |-> Raise(info, "IndexError"), ret |-> None]
                             ELSE _transformed_t(info, producer.inputs[1],
                                                 consumer_op, seen \cup {t})
                        ELSE PlaceholderFor(info, t, <<"geph_tmp">>) } })
  ELSE keep_t_if_possible_handler(info, t)

----------------------------------------------------------------------------
(* The transformer: the passes of a call *)

\* _COLOCATION_PREFIX
ColocationPrefix == <<"l", "o", "c", ":", "@">>

\* The loop of copy_op_handler over the strings of the colocation attribute:
\* each is cut after the prefix, renamed and prefixed again
RECURSIVE RenameColocation(_, _)
RenameColocation(info, cg_attr_list) ==
  IF cg_attr_list = <<>> THEN [result |-> "ok", ret |-> <<>>]
  ELSE LET old_node_name == DropFirst(Head(cg_attr_list), Len(ColocationPrefix))
           new_node_name == new_name(info, old_node_name)
           rest == RenameColocation(info, Tail(cg_attr_list))
       IN IF new_node_name.result # "ok"
          THEN [result |-> new_node_name.result, ret |-> <<>>]
          ELSE IF rest.result # "ok" THEN rest
          ELSE [result |-> "ok",
                ret |-> <<ColocationPrefix \o new_node_name.ret>> \o rest.ret]

\* copy_op_handler(info, op, new_inputs) with copy_shape_and_dtype=False and
\* no nodedef_fn: the info afterwards and the id of the new node. The
\* inference of the outputs gives the new node the output types of op
copy_op_handler(info, op, new_inputs) ==
  LET src   == NodeById(info.graphs[info.graph], op)
      n     == new_name(info, src.name)
      name_ == unique_name(info.graphs[info.graph_], n.ret)
      cg    == IF src.attrs.colocation = None
               THEN [result |-> "ok", ret |-> None]
               ELSE LET r == RenameColocation(info, src.attrs.colocation[1])
                    IN [result |-> r.result, ret |-> Some(r.ret)]
      node_def_ == [name |-> name_, op |-> src.op_type, device |-> src.device,
                    attr |-> [src.attrs EXCEPT !.colocation = cg.ret]]
      Failed(G_, result) == [info |-> [info EXCEPT !.graphs[info.graph_] = G_,
                                                   !.result = result],
                             op_  |-> 0]
  IN IF n.result # "ok" THEN [info |-> Raise(info, n.result), op_ |-> 0]
     ELSE IF cg.result # "ok" THEN [info |-> Raise(info, cg.result), op_ |-> 0]
     ELSE Only({
       IF a.result # "ok" THEN Failed(a.G, a.result)
       ELSE Only({
         IF i.result # "ok" THEN Failed(i.G, i.result)
         ELSE Only({ [info |-> [info EXCEPT !.graphs[info.graph_] = o.G,
                                            !.result = o.result],
                      op_  |-> a.node] :
                     o \in {set_outputs_from_pairs(i.G, a.node, src.outputs)} }) :
         i \in {set_inputs(a.G, a.node, new_inputs)} }) :
       a \in {add_node_from_node_def(info.graphs[info.graph_], node_def_)} })

\* [self._transformed_t(info, t, op) for t in ts], after the tensors acc
RECURSIVE TransformedInputs(_, _, _, _)
TransformedInputs(info, ts, op, acc) ==
  IF ts = <<>> \/ info.result # "ok" THEN [info |-> info, ret |-> acc]
  ELSE LET Rest(r) == TransformedInputs(r.info, Tail(ts), op,
                        IF r.info.result = "ok" THEN Append(acc, r.ret[1])
                        ELSE acc)
       IN Only({Rest(st) : st \in {_transformed_t(info, Head(ts), op, {})}})

\* info.transformed_ts[op_output] = op_output_ for the pairs of
\* zip(op.outputs, op_outputs_)
RECURSIVE RecordOutputs(_, _, _)
RecordOutputs(transformed_ts, outputs, outputs_) ==
  IF outputs = <<>> \/ outputs_ = <<>> THEN transformed_ts
  ELSE LET Rest(x) == RecordOutputs(x, Tail(outputs), Tail(outputs_))
       IN Only({Rest(st) : st \in {Put(transformed_ts, Head(outputs), Head(outputs_))}})

\* The body of the loop of _copy_ops as it would be if it recorded the
\* original node as its own copy
CopyOpKeepsOriginal(info, op) ==
  Only({
    IF new_inputs.info.result # "ok" THEN new_inputs.info
    ELSE Only({
      IF c.info.result # "ok" THEN c.info
      ELSE [c.info EXCEPT
              !.transformed_ops = Put(@, op, NodeRef(info.graph, op)),
              !.transformed_ts = RecordOutputs(@,
                 OutputTensors(NodeById(c.info.graphs[info.graph], op)),
                 OutputTensors(NodeById(c.info.graphs[info.graph_], c.op_)))] :
      c \in {copy_op_handler(new_inputs.info, op, new_inputs.ret)} }) :
    new_inputs \in {TransformedInputs(info,
                      NodeById(info.graphs[info.graph], op).inputs, op, <<>>)} })

\* The body of the loop of Transformer._copy_ops, for the node op
CopyOp(info, op) ==
  Only({
    IF new_inputs.info.result # "ok" THEN new_inputs.info
    ELSE Only({
      IF c.info.result # "ok" THEN c.info
      ELSE IF info.graph = info.graph_ /\ c.op_ = op
      THEN Raise(c.info, "ValueError")
      ELSE [c.info EXCEPT
              !.transformed_ops = Put(@, op, NodeRef(info.graph_, c.op_)),
              !.transformed_ts = RecordOutputs(@,
                 OutputTensors(NodeById(c.info.graphs[info.graph], op)),
                 OutputTensors(NodeById(c.info.graphs[info.graph_], c.op_)))] :
      c \in {copy_op_handler(new_inputs.info, op, new_inputs.ret)} }) :
    new_inputs \in {TransformedInputs(info,
                      NodeById(info.graphs[info.graph], op).inputs, op, <<>>)} })

\* for op in sorted_ops
RECURSIVE CopyOpsLoop(_, _)
CopyOpsLoop(info, sorted_ops) ==
  IF sorted_ops = <<>> \/ info.result # "ok" THEN info
  ELSE LET Rest(x) == CopyOpsLoop(x, Tail(sorted_ops))
       IN Only({Rest(st) : st \in {CopyOp(info, Head(sorted_ops))}})

\* Transformer._copy_ops
_copy_ops(info) == CopyOpsLoop(info, SortedIds(Range(info.sgv.ops)))

\* The body of the loop of Transformer._finalize_cycles, for one entry
\* (t, tmp_t_, consumer_op) of info.tmp_cyclic_ts
FinalizeCycle(info, entry) ==
  LET t == entry[1]
      tmp_t_ == entry[2]
      consumer_op == entry[3]
  IN IF t \notin Keys(info.transformed_ts) THEN Raise(info, "ValueError")
     ELSE IF consumer_op \notin Keys(info.transformed_ops)
     THEN Raise(info, "ValueError")
     ELSE LET t_ == Get(info.transformed_ts, t)
              consumer_op_ == Get(info.transformed_ops, consumer_op)
              G_ == info.graphs[consumer_op_.graph]
              t_index_ == IndexOf(NodeById(G_, consumer_op_.node).inputs, tmp_t_)
          IN IF t_index_ = 0 THEN Raise(info, "ValueError")
             ELSE Only({ [info EXCEPT !.graphs[consumer_op_.graph] = r.G,
                                      !.result = r.result] :
                         r \in {replace_input(G_, consumer_op_.node, t_index_, t_)} })

\* for t, tmp_t_, consumer_op in <entries>
RECURSIVE FinalizeCyclesLoop(_, _)
FinalizeCyclesLoop(info, entries) ==
  IF entries = <<>> \/ info.result # "ok" THEN info
  ELSE LET Rest(x) == FinalizeCyclesLoop(x, Tail(entries))
       IN Only({Rest(st) : st \in {FinalizeCycle(info, Head(entries))}})

\* Transformer._finalize_cycles
_finalize_cycles(info) == FinalizeCyclesLoop(info, info.tmp_cyclic_ts)

\* The items of a sequence of optional values that are not None
RECURSIVE NotNone(_)
NotNone(s) ==
  IF s = <<>> THEN <<>>
  ELSE (IF Head(s) = None THEN <<>> ELSE <<Head(s)[1]>>) \o NotNone(Tail(s))

\* The body of the loop of Transformer._connect_control_inputs, for node op
ConnectControlInputs(info, op) ==
  LET op_ == Get(info.transformed_ops, op)
      control_inputs == NodeById(info.graphs[info.graph], op).control_inputs
      control_inputs_ == NotNone([i \in DOMAIN control_inputs |->
                           transform_op_if_inside_handler(info, control_inputs[i])])
  IN Only({ [info EXCEPT !.graphs[op_.graph] = r.G, !.result = r.result] :
            r \in {set_control_inputs(info.graphs[op_.graph], op_.node,
                                      control_inputs_)} })

\* for op in <ops>
RECURSIVE ConnectControlInputsLoop(_, _)
ConnectControlInputsLoop(info, ops) ==
  IF ops = <<>> \/ info.result # "ok" THEN info
  ELSE LET Rest(x) == ConnectControlInputsLoop(x, Tail(ops))
       IN Only({Rest(st) : st \in {ConnectControlInputs(info, Head(ops))}})

\* Transformer._connect_control_inputs
_connect_control_inputs(info) == ConnectControlInputsLoop(info, info.sgv.ops)

\* Transformer._transform_sgv: the view of the copies, its inputs and outputs
\* in the order of those of the view of the originals
_transform_sgv(info) ==
  LET ops_ == [i \in DOMAIN info.transformed_ops |-> info.transformed_ops[i][2].node]
      sgv_ == make_view(info.graphs[info.graph_], ops_)
      HasInput(t) == /\ t \in Keys(info.transformed_ts)
                     /\ Get(info.transformed_ts, t) \in Range(sgv_.inputs)
      HasOutput(t) == /\ t \in Keys(info.transformed_ts)
                      /\ Get(info.transformed_ts, t) \in Range(sgv_.outputs)
      ins == SelectSeq(info.sgv.inputs, HasInput)
      outs == SelectSeq(info.sgv.outputs, HasOutput)
  IN [sgv_ EXCEPT
        !.inputs = [i \in DOMAIN ins |-> Get(info.transformed_ts, ins[i])],
        !.outputs = [i \in DOMAIN outs |-> Get(info.transformed_ts, outs[i])]]

\* TransformerInfo.__init__
TransformerInfo(info) ==
  [ graph           |-> info.graph,
    scope           |-> info.scope,
    graph_          |-> info.graph_,
    scope_          |-> info.scope_,
    transformed_ops |-> info.transformed_ops,
    transformed_ts  |-> info.transformed_ts ]

\* What a caller hands to TransformerInfo.transformed: a node, a tensor or a
\* string
AsNode(ref) == [type |-> "Node", value |-> ref]

AsTensor(t) == [type |-> "Tensor", value |-> t]

AsString(s) == [type |-> "str", value |-> s]

\* TransformerInfo._get_transformed_map
_get_transformed_map(res_info, top) ==
  IF top.type = "Node"
  THEN [result |-> "ok",
        ret |-> [i \in DOMAIN res_info.transformed_ops |->
                   <<NodeRef(res_info.graph, res_info.transformed_ops[i][1]),
                     res_info.transformed_ops[i][2]>>]]
  ELSE IF top.type = "Tensor"
  THEN [result |-> "ok", ret |-> res_info.transformed_ts]
  ELSE [result |-> "TypeError", ret |-> <<>>]

\* TransformerInfo._transformed_elem as it would be if it took every element
\* for one that has no counterpart
_transformed_elem_always_missing(res_info, original_top, with_missing_fn) ==
  [result |-> "ok",
   ret |-> IF with_missing_fn THEN Some(original_top.value) ELSE None]

\* TransformerInfo._transformed_elem; with_missing_fn tells whether the
\* missing_fn of graph_replace, which returns its argument, is given
_transformed_elem(res_info, original_top, with_missing_fn) ==
  LET transformed_map == _get_transformed_map(res_info, original_top)
      missing == IF with_missing_fn THEN Some(original_top.value) ELSE None
  IN IF transformed_map.result # "ok"
     THEN [result |-> transformed_map.result, ret |-> None]
     ELSE IF original_top.value \notin Keys(transformed_map.ret)
     THEN [result |-> "ok", ret |-> missing]
     ELSE [result |-> "ok", ret |-> Some(Get(transformed_map.ret, original_top.value))]

\* Transformer.__call__ on the view of the nodes ops of graph src: the graphs
\* afterwards, how the call ended, and the TransformerInfo and the view it
\* returns
__call__(Gs, src, ops, dst_graph, dst_scope, src_scope, reuse_dst_scope, handler, replacement_ts) ==
  LET src_scope1 == scope_finalize(src_scope)
      dst_scope1 == scope_finalize(dst_scope)
      dst_scope2 == IF dst_scope1 # <<>> /\ ~reuse_dst_scope
                    THEN scope_finalize(unique_name(Gs[dst_graph], DropLast(dst_scope1)))
                    ELSE dst_scope1
      Returned(info) ==
        [ graphs |-> info.graphs,
          result |-> info.result,
          info   |-> TransformerInfo(info),
          tmp_cyclic_ts |-> info.tmp_cyclic_ts,
          sgv_   |-> IF info.result = "ok" THEN Some(_transform_sgv(info)) ELSE None ]
  IN Only({
       Only({
         IF info1.result # "ok" THEN Returned(info1)
         ELSE Only({
           IF info2.result # "ok" THEN Returned(info2)
           ELSE Only({ Returned(info3) : info3 \in {_connect_control_inputs(info2)} }) :
           info2 \in {_finalize_cycles(info1)} }) :
         info1 \in {_copy_ops(TmpInfo(Gs, sgv, dst_graph, dst_scope2, src_scope1,
                                      handler, replacement_ts))} }) :
       sgv \in {make_view(Gs[src], ops)} })

\* copy(sgv, dst_graph, dst_scope, src_scope, reuse_dst_scope); dst_graph is
\* None or a graph
copy(Gs, src, ops, dst_graph, dst_scope, src_scope, reuse_dst_scope) ==
  __call__(Gs, src, ops, IF dst_graph = None THEN src ELSE dst_graph[1],
           dst_scope, src_scope, reuse_dst_scope,
           "replace_t_with_placeholder_handler", <<>>)

\* copy_with_input_replacements
copy_with_input_replacements(Gs, src, ops, replacement_ts, dst_graph, dst_scope, src_scope, reuse_dst_scope) ==
  __call__(Gs, src, ops, IF dst_graph = None THEN src ELSE dst_graph[1],
           dst_scope, src_scope, reuse_dst_scope,
           "replace_t_with_replacement_handler", replacement_ts)

----------------------------------------------------------------------------
(* graph_replace *)

\* Graph.colocation_groups: for every node name that a colocation string of
\* some node names, the group of the nodes that name it and of the node of
\* that name
colocation_groups(G) ==
  LET Peers(n) == IF n.attrs.colocation = None THEN {}
                  ELSE {DropFirst(n.attrs.colocation[1][i], Len(ColocationPrefix)) :
                          i \in DOMAIN n.attrs.colocation[1]}
      heads == UNION {Peers(Nodes(G)[i]) : i \in DOMAIN Nodes(G)}
  IN {{Nodes(G)[i].id_in_graph : i \in
         {j \in DOMAIN Nodes(G) :
            Nodes(G)[j].name = head \/ head \in Peers(Nodes(G)[j])}} :
      head \in heads}

\* The while loop of _add_control_flow_ops: the groups that meet all_ops are
\* added to it until it stops growing
RECURSIVE ColocationClosure(_, _)
ColocationClosure(groups, all_ops) ==
  LET grown == all_ops \cup UNION {group \in groups : group \cap all_ops # {}}
  IN IF grown = all_ops THEN all_ops ELSE ColocationClosure(groups, grown)

\* _add_control_flow_ops(ops, control_ios): the graph afterwards (its frame
\* tables computed), the list ops afterwards (the nodes added to it are
\* appended in the order of their ids) and how the call ended
_add_control_flow_ops(G, ops) ==
  Only({
    IF e.result # "ok" THEN [G |-> e.G, result |-> e.result, ops |-> ops]
    ELSE
      LET n2f == e.G.node_to_frame_names[1]
          f2n == e.G.frame_name_to_nodes[1]
          frame_names == UNION {Range(n2f[ops[i]]) : i \in DOMAIN ops}
          new_ops == UNION {Range(f2n[frame_name]) : frame_name \in frame_names}
      IN IF \E i \in DOMAIN ops : ops[i] \notin DOMAIN n2f
         THEN [G |-> e.G, result |-> "KeyError", ops |-> ops]
         ELSE Only({ [G |-> e.G, result |-> "ok",
                      ops |-> ops \o SortedIds(all_ops \ Range(ops))] :
                     all_ops \in {ColocationClosure(colocation_groups(e.G),
                                                    new_ops \cup Range(ops))} }) :
    e \in {EnsureFrames(G)} })

\* util.get_unique_graph(tops, check_types=(Tensor,)): the graph of the
\* tensors, None when they have none or more than one
get_unique_graph(tops) ==
  IF Cardinality({tops[i].graph : i \in DOMAIN tops}) = 1
  THEN Some(tops[1].graph) ELSE None

\* graph_replace as it would be if it looked whether the walks meet only
\* after it has completed the nodes and copied them
graph_replace_copy_first(Gs, target_ts, replacement_ts, dst_scope, src_scope, reuse_dst_scope) ==
  LET graph == get_unique_graph(target_ts)
      G == Gs[graph[1]]
      Returned(c, ops) ==
        IF c.result # "ok"
        THEN [graphs |-> c.graphs, result |-> c.result, ret |-> <<>>]
        ELSE IF ops = <<>>
        THEN [graphs |-> c.graphs, result |-> "ValueError", ret |-> <<>>]
        ELSE [graphs |-> c.graphs, result |-> "ok",
              ret |-> [i \in DOMAIN target_ts |->
                         _transformed_elem(c.info, AsTensor(target_ts[i]), TRUE).ret[1]]]
  IN IF graph = None THEN [graphs |-> Gs, result |-> "ValueError", ret |-> <<>>]
     ELSE Only({
       Only({
         IF a.result # "ok"
         THEN [graphs |-> [Gs EXCEPT ![graph[1]] = a.G], result |-> a.result,
               ret |-> <<>>]
         ELSE Only({ Returned(c, ops) :
                c \in {copy_with_input_replacements(
                         [Gs EXCEPT ![graph[1]] = a.G], graph[1], a.ops,
                         replacement_ts, None, dst_scope, src_scope,
                         reuse_dst_scope)} }) :
         a \in {_add_control_flow_ops(G,
                  IF ops = <<>> THEN SortedIds(NodeIds(G)) ELSE ops)} }) :
       ops \in {get_walks_intersection_ops(G,
                  [i \in DOMAIN replacement_ts |-> replacement_ts[i][1]],
                  target_ts)} })

\* graph_replace(target_ts, replacement_ts, dst_scope, src_scope,
\* reuse_dst_scope), target_ts a list of tensors and replacement_ts a dict:
\* the graphs afterwards, how the call ended and the list it returns
graph_replace(Gs, target_ts, replacement_ts, dst_scope, src_scope, reuse_dst_scope) ==
  LET graph == get_unique_graph(target_ts)
      G == Gs[graph[1]]
      Returned(c) ==
        IF c.result # "ok"
        THEN [graphs |-> c.graphs, result |-> c.result, ret |-> <<>>]
        ELSE [graphs |-> c.graphs, result |-> "ok",
              ret |-> [i \in DOMAIN target_ts |->
                         _transformed_elem(c.info, AsTensor(target_ts[i]), TRUE).ret[1]]]
  IN IF graph = None THEN [graphs |-> Gs, result |-> "ValueError", ret |-> <<>>]
     ELSE Only({
       IF ops = <<>> THEN [graphs |-> Gs, result |-> "ValueError", ret |-> <<>>]
       ELSE Only({
         IF a.result # "ok"
         THEN [graphs |-> [Gs EXCEPT ![graph[1]] = a.G], result |-> a.result,
               ret |-> <<>>]
         ELSE Only({ Returned(c) :
                c \in {copy_with_input_replacements(
                         [Gs EXCEPT ![graph[1]] = a.G], graph[1], a.ops,
                         replacement_ts, None, dst_scope, src_scope,
                         reuse_dst_scope)} }) :
         a \in {_add_control_flow_ops(G, ops)} }) :
       ops \in {get_walks_intersection_ops(G,
                  [i \in DOMAIN replacement_ts |-> replacement_ts[i][1]],
                  target_ts)} })

----------------------------------------------------------------------------
(* Copies and replacements in a graph that computes g(f(a)) *)

\* Largest number of calls of copy and graph_replace in a behaviour
MaxCalls == 2

\* The chain: a -> f -> g, a second source b, and a node d on its own
ChainA == NodeDef(<<"a">>, "Const", NoAttrs, <<>>, 1)
ChainB == NodeDef(<<"b">>, "Const", NoAttrs, <<>>, 1)
ChainF == NodeDef(<<"f">>, "Identity", NoAttrs, <<DataInput(<<"a">>, 0)>>, 1)
ChainG == NodeDef(<<"g">>, "Identity", NoAttrs, <<DataInput(<<"f">>, 0)>>, 1)
ChainD == NodeDef(<<"d">>, "Const", NoAttrs, <<>>, 1)

\* The records of the chain in the orders a wire record lists them
ChainOrders ==
  { <<ChainA, ChainB, ChainF, ChainG, ChainD>>,
    <<ChainD, ChainG, ChainF, ChainB, ChainA>> }

\* The records of the while loop of the section above
WhileLoop ==
  <<LoopC, LoopEnter, LoopMerge, LoopSwitch, LoopExit, LoopBody, LoopNext>>

\* The wire records of the graphs transformed: the chain alone, and the
\* chain before and after a while loop that it is not connected to
ChainGraphDefs ==
  ChainOrders
  \cup { <<ChainA, ChainB, ChainF, ChainG, ChainD>> \o WhileLoop,
         WhileLoop \o <<ChainD, ChainG, ChainF, ChainB, ChainA>> }

\* Output 0 of the node of that name in graph G
OutputOf(G, name) == Tensor(G.gid, NodeByName(G, name).id_in_graph, 0)

\* What the last call was, with what it was called, and what it returned
NoTransform ==
  [ op             |-> "init",
    calls          |-> 0,
    result         |-> "ok",
    target_ts      |-> <<>>,
    replacement_ts |-> <<>>,
    ops            |-> <<>>,
    dst_graph      |-> None,
    dst_scope      |-> <<>>,
    ret            |-> <<>>,
    info           |-> None ]

InitTransform ==
  /\ \E graph_def \in ChainGraphDefs :
        graphs = [gid \in GraphIds |->
                    IF gid = SRC THEN GraphFromDef(SRC, graph_def)
                    ELSE EmptyGraph(gid)]
  /\ last = NoTransform

\* graph_replace(targets, {original: replacement}, dst_scope), targets a list
\* of tensors, the tensors being output 0 of the nodes of these names
GraphReplace(targets, original, replacement, dst_scope) ==
  /\ last.calls < MaxCalls
  /\ LET target_ts == [i \in DOMAIN targets |-> OutputOf(graphs[SRC], targets[i])]
         replacement_ts == <<<<OutputOf(graphs[SRC], original),
                               OutputOf(graphs[SRC], replacement)>>>>
     IN \E r \in {graph_replace(graphs, target_ts, replacement_ts, dst_scope,
                                <<>>, FALSE)} :
          /\ graphs' = r.graphs
          /\ last' = [NoTransform EXCEPT
                        !.op = "graph_replace", !.calls = last.calls + 1,
                        !.result = r.result, !.target_ts = target_ts,
                        !.replacement_ts = replacement_ts,
                        !.dst_scope = dst_scope, !.ret = r.ret]

\* copy(ops, dst_graph, dst_scope), ops being the nodes of these names
Copy(names, dst_graph, dst_scope) ==
  /\ last.calls < MaxCalls
  /\ LET ops == [i \in DOMAIN names |-> NodeByName(graphs[SRC], names[i]).id_in_graph]
     IN \E r \in {copy(graphs, SRC, ops, dst_graph, dst_scope, <<>>, FALSE)} :
          /\ graphs' = r.graphs
          /\ last' = [NoTransform EXCEPT
                        !.op = "copy", !.calls = last.calls + 1,
                        !.result = r.result, !.ops = ops,
                        !.dst_graph = dst_graph, !.dst_scope = dst_scope,
                        !.info = Some(r.info)]

\* Destination scopes the calls are made with
Scopes == { <<>>, <<"f">> }

NextTransform ==
  \/ \E targets \in {<<<<"g">>>>, <<<<"d">>>>, <<<<"g">>, <<"d">>>>},
        original \in {<<"a">>, <<"f">>}, dst_scope \in Scopes :
        GraphReplace(targets, original, <<"b">>, dst_scope)
  \/ \E names \in {<<<<"f">>>>, <<<<"a">>, <<"f">>, <<"g">>>>},
        dst_graph \in {None, Some(DST)}, dst_scope \in Scopes :
        Copy(names, dst_graph, dst_scope)

SpecTransform == InitTransform /\ [][NextTransform]_vars

----------------------------------------------------------------------------
(* Properties of copy and graph_replace *)

\* The call made by the step is graph_replace([target], {original: replacement})
\* on output 0 of the nodes of these names
IsGraphReplaceOf(l, G, target, original, replacement) ==
  /\ l.op = "graph_replace"
  /\ l.target_ts = <<OutputOf(G, target)>>
  /\ l.replacement_ts = <<<<OutputOf(G, original), OutputOf(G, replacement)>>>>

\* Node id is in graph G2 and was not in graph G1
IsFreshNode(G1, G2, id) == id \in NodeIds(G2) /\ id \notin NodeIds(G1)

\* The node of that name has in G2 the name, data inputs and control inputs
\* it has in G1
Unmodified(G1, G2, name) ==
  /\ contains_node(G2, name)
  /\ NodeByName(G2, name).id_in_graph = NodeByName(G1, name).id_in_graph
  /\ NodeByName(G2, name).inputs = NodeByName(G1, name).inputs
  /\ NodeByName(G2, name).control_inputs = NodeByName(G1, name).control_inputs

\* C8: with f consuming a and g consuming f, graph_replace(g:0, {a:0: b:0})
\* returns output 0 of a fresh copy of g whose data input is the output of a
\* fresh copy of f whose data input is b:0, and the nodes a, f and g keep
\* their names, data inputs and control inputs
C8_GraphReplaceSubstitutes ==
  [][ IsGraphReplaceOf(last', g, <<"g">>, <<"a">>, <<"b">>) =>
        /\ last'.result = "ok"
        /\ Len(last'.ret) = 1
        /\ LET G2 == graphs'[SRC]
               z2 == last'.ret[1]
           IN /\ z2.graph = SRC
              /\ z2.value_index = 0
              /\ IsFreshNode(g, G2, z2.node)
              /\ NodeById(G2, z2.node).op_type = NodeByName(g, <<"g">>).op_type
              /\ Len(NodeById(G2, z2.node).inputs) = 1
              /\ LET y2 == NodeById(G2, z2.node).inputs[1]
                 IN /\ y2.graph = SRC
                    /\ y2.value_index = 0
                    /\ IsFreshNode(g, G2, y2.node)
                    /\ NodeById(G2, y2.node).op_type = NodeByName(g, <<"f">>).op_type
                    /\ NodeById(G2, y2.node).inputs = <<OutputOf(g, <<"b">>)>>
              /\ \A name \in {<<"a">>, <<"f">>, <<"g">>} : Unmodified(g, G2, name)
    ]_vars

\* C9: a graph_replace whose forward walk from the keys of the replacement
\* map and backward walk from the targets share no node raises ValueError,
\* and leaves the node table and the version of every graph as they were
C9_DisconnectedReplaceLeavesGraph ==
  [][ ( /\ last'.op = "graph_replace"
        /\ get_walks_intersection_ops(g,
             [i \in DOMAIN last'.replacement_ts |-> last'.replacement_ts[i][1]],
             last'.target_ts) = <<>> ) =>
        /\ last'.result = "ValueError"
        /\ \A gid \in GraphIds :
              /\ graphs'[gid].node_name_to_node = graphs[gid].node_name_to_node
              /\ graphs'[gid].version = graphs[gid].version
    ]_vars

\* A graph_replace of d:0, which nothing connects to a or f, has raised
C9_Witness ==
  /\ last.op = "graph_replace"
  /\ last.target_ts = <<OutputOf(g, <<"d">>)>>
  /\ last.result = "ValueError"

\* TransformerInfo.transformed(node) with no missing_fn, for node op of SRC
TransformedNode(res_info, op) ==
  _transformed_elem(res_info, AsNode(NodeRef(SRC, op)), FALSE).ret

\* C10: a copy of n nodes that is given no destination graph and returns,
\* under whatever destination scope, has made n new nodes of the same graph,
\* whose names differ from every name the graph held and from each other,
\* and transformed(original) is the new node made for that original
C10_InPlaceCopyDisjointNames ==
  [][ (last'.op = "copy" /\ last'.dst_graph = None /\ last'.result = "ok") =>
        LET res_info == last'.info[1]
            G2 == graphs'[SRC]
            ops == Range(last'.ops)
            CopyOf(op) == TransformedNode(res_info, op)[1]
        IN /\ \A op \in ops :
                /\ TransformedNode(res_info, op) # None
                /\ CopyOf(op).graph = SRC
                /\ IsFreshNode(g, G2, CopyOf(op).node)
                /\ NodeById(G2, CopyOf(op).node).op_type = NodeById(g, op).op_type
                /\ NodeById(G2, CopyOf(op).node).name \notin Range(NodeNames(g))
           /\ \A op1 \in ops, op2 \in ops :
                op1 # op2 =>
                  /\ CopyOf(op1).node # CopyOf(op2).node
                  /\ NodeById(G2, CopyOf(op1).node).name
                       # NodeById(G2, CopyOf(op2).node).name
    ]_vars

\* A copy of three nodes within their graph, under a scope, has returned
C10_Witness ==
  /\ last.op = "copy"
  /\ last.dst_graph = None
  /\ last.dst_scope # <<>>
  /\ last.result = "ok"
  /\ Len(last.ops) = 3
  /\ \A i \in DOMAIN last.ops : TransformedNode(last.info[1], last.ops[i]) # None

----------------------------------------------------------------------------
(* Copies of views of a graph with colocated nodes, control inputs and a
   while loop *)

\* Largest number of calls of copy in a behaviour
MaxCopies == 1

\* The _class attribute that names these nodes
ColocAttr(names) ==
  [frame_name |-> None,
   colocation |-> Some([i \in DOMAIN names |-> ColocationPrefix \o names[i]])]

\* w adds u and v after v has run and is colocated with u; y follows w, is
\* colocated with it and runs after w and v; their records in the orders a
\* wire record lists them
PeerOrders ==
  LET u == NodeDef(<<"u">>, "Const", NoAttrs, <<>>, 1)
      v == NodeDef(<<"v">>, "Const", NoAttrs, <<>>, 1)
      w == NodeDef(<<"w">>, "Add", ColocAttr(<<<<"u">>>>),
                   <<DataInput(<<"u">>, 0), DataInput(<<"v">>, 0), ControlInput(<<"v">>)>>, 1)
      y == NodeDef(<<"y">>, "Identity", ColocAttr(<<<<"w">>>>),
                   <<DataInput(<<"w">>, 0), ControlInput(<<"w">>), ControlInput(<<"v">>)>>, 1)
  IN { <<u, v, w, y>>, <<y, w, v, u>> }

\* The wire records of the graphs copied; the last is the while loop with
\* the NextIteration listed before the body
CopyGraphDefs ==
  PeerOrders \cup
    { WhileLoop,
      <<LoopC, LoopEnter, LoopMerge, LoopSwitch, LoopExit, LoopNext, LoopBody>> }

\* The views copied, each as the list of the names of its nodes
CopyViews ==
  { <<<<"w">>>>,
    <<<<"u">>, <<"w">>>>,
    <<<<"y">>, <<"w">>>>,
    <<<<"u">>, <<"v">>, <<"w">>, <<"y">>>>,
    <<<<"m">>, <<"s">>, <<"i">>, <<"n">>>>,
    <<<<"c">>, <<"e">>, <<"m">>, <<"s">>, <<"x">>, <<"i">>, <<"n">>>> }

\* Destination scopes the copies are made with
CopyScopes == { <<>>, <<"u">> }

\* What the last call was, with what it was called on which graphs, and what
\* it returned
NoCopy ==
  [ op            |-> "init",
    calls         |-> 0,
    result        |-> "ok",
    before        |-> <<>>,
    ops           |-> <<>>,
    dst_graph     |-> SRC,
    dst_scope     |-> <<>>,
    info          |-> None,
    tmp_cyclic_ts |-> <<>>,
    top           |-> None,
    missing_fn    |-> FALSE,
    ret           |-> None ]

InitCopy ==
  /\ \E graph_def \in CopyGraphDefs :
        graphs = [gid \in GraphIds |->
                    IF gid = SRC THEN GraphFromDef(SRC, graph_def)
                    ELSE EmptyGraph(gid)]
  /\ last = NoCopy

\* copy(ops, dst_graph, dst_scope), ops being the nodes of these names of
\* the graph SRC
CopyView(names, dst_graph, dst_scope) ==
  /\ last.calls < MaxCopies
  /\ \A i \in DOMAIN names : contains_node(graphs[SRC], names[i])
  /\ LET ops == [i \in DOMAIN names |-> NodeByName(graphs[SRC], names[i]).id_in_graph]
     IN \E r \in {copy(graphs, SRC, ops, dst_graph, dst_scope, <<>>, FALSE)} :
          /\ graphs' = r.graphs
          /\ last' = [NoCopy EXCEPT
                        !.op = "copy", !.calls = last.calls + 1,
                        !.result = r.result, !.before = graphs, !.ops = ops,
                        !.dst_graph = IF dst_graph = None THEN SRC ELSE dst_graph[1],
                        !.dst_scope = dst_scope,
                        !.info = Some(r.info),
                        !.tmp_cyclic_ts = r.tmp_cyclic_ts]

\* TransformerInfo._original_elem as it would be if it compared the element
\* with the originals
_original_elem_among_originals(res_info, transformed_top, with_missing_fn) ==
  _transformed_elem(res_info, transformed_top, with_missing_fn)

\* TransformerInfo._original_elem. A string never reaches the comparison of
\* names: _get_transformed_map has raised for it
_original_elem(res_info, transformed_top, with_missing_fn) ==
  LET transformed_map == _get_transformed_map(res_info, transformed_top)
      missing == IF with_missing_fn THEN Some(transformed_top.value) ELSE None
      IsTop(item) == item[2] = transformed_top.value
      hits == IF transformed_map.result = "ok"
              THEN SelectSeq(transformed_map.ret, IsTop) ELSE <<>>
  IN IF transformed_map.result # "ok"
     THEN [result |-> transformed_map.result, ret |-> None]
     ELSE IF hits = <<>> THEN [result |-> "ok", ret |-> missing]
     ELSE [result |-> "ok", ret |-> Some(hits[1][1])]

\* util.transform_tree(tree, fn) on a list of leaves: the list of what fn
\* returns for them, unless fn raises for one of them
transform_tree(leaves) ==
  LET failed == {i \in DOMAIN leaves : leaves[i].result # "ok"}
      first == CHOOSE i \in failed : \A j \in failed : i <= j
  IN IF failed # {} THEN [result |-> leaves[first].result, ret |-> <<>>]
     ELSE [result |-> "ok", ret |-> [i \in DOMAIN leaves |-> leaves[i].ret]]

\* TransformerInfo.transformed(original, missing_fn), original a list
transformed(res_info, original_tree, with_missing_fn) ==
  transform_tree([i \in DOMAIN original_tree |->
                    _transformed_elem(res_info, original_tree[i], with_missing_fn)])

\* TransformerInfo.original(transformed, missing_fn), transformed a list
original(res_info, transformed_tree, with_missing_fn) ==
  transform_tree([i \in DOMAIN transformed_tree |->
                    _original_elem(res_info, transformed_tree[i], with_missing_fn)])

\* The lists a lookup is made with: the nodes of one graph, in the order of
\* their ids, and then their outputs, or the names of the nodes of the source
\* graph
LookupTrees ==
  LET Ids(G) == SortedIds(NodeIds(G))
      NodesAndTensors(G) ==
        [i \in DOMAIN Ids(G) |-> AsNode(NodeRef(G.gid, Ids(G)[i]))]
        \o Flatten([i \in DOMAIN Ids(G) |->
                      [k \in DOMAIN NodeById(G, Ids(G)[i]).outputs |->
                         AsTensor(Tensor(G.gid, Ids(G)[i], k - 1))]])
      NamesOf(G) ==
        [i \in DOMAIN Ids(G) |-> AsString(NodeById(G, Ids(G)[i]).name)]
  IN {NodesAndTensors(graphs[gid]) : gid \in GraphIds} \cup {NamesOf(graphs[SRC])}

\* info.transformed(tree, missing_fn) on the info the last copy returned
Transformed(tree, with_missing_fn) ==
  /\ last.info # None
  /\ last.result = "ok"
  /\ last' = [last EXCEPT !.op = "transformed", !.top = Some(tree),
                          !.missing_fn = with_missing_fn,
                          !.ret = Some(transformed(last.info[1], tree, with_missing_fn))]
  /\ UNCHANGED graphs

\* info.original(tree, missing_fn) on the info the last copy returned
Original(tree, with_missing_fn) ==
  /\ last.info # None
  /\ last.result = "ok"
  /\ last' = [last EXCEPT !.op = "original", !.top = Some(tree),
                          !.missing_fn = with_missing_fn,
                          !.ret = Some(original(last.info[1], tree, with_missing_fn))]
  /\ UNCHANGED graphs

NextCopy ==
  \/ \E names \in CopyViews, dst_graph \in {None, Some(DST)}, dst_scope \in CopyScopes :
        CopyView(names, dst_graph, dst_scope)
  \/ \E tree \in LookupTrees, with_missing_fn \in BOOLEAN :
        Transformed(tree, with_missing_fn)
  \/ \E tree \in LookupTrees, with_missing_fn \in BOOLEAN :
        Original(tree, with_missing_fn)

SpecCopy == InitCopy /\ [][NextCopy]_vars

----------------------------------------------------------------------------
(* Properties of copy *)

\* The step is a call of copy that returned
IsCopy(l) == l.op = "copy" /\ l.result = "ok"

\* The copy made of node op of the source graph, as a reference to a node
CopyOfNode(l, op) == Get(l.info[1].transformed_ops, op)

\* The node that is the copy of node op, read in the graphs Gs
CopiedNode(Gs, l, op) == NodeById(Gs[CopyOfNode(l, op).graph], CopyOfNode(l, op).node)

\* The names that the colocation strings of node n name
ColocatedWith(n) ==
  IF n.attrs.colocation = None THEN {}
  ELSE {DropFirst(n.attrs.colocation[1][i], Len(ColocationPrefix)) :
          i \in DOMAIN n.attrs.colocation[1]}

\* C11: when a copy returns, for every copied node whose _class attribute
\* names a peer that the same call copied, the _class attribute of the copy
\* names the copy of that peer by the name it has in the destination graph,
\* whether the destination is another graph or the same one
C11_ColocationNamesPeerCopy ==
  [][ IsCopy(last') =>
        \A op \in Range(last'.ops), peer \in Range(last'.ops) :
           NodeById(graphs[SRC], peer).name \in ColocatedWith(NodeById(graphs[SRC], op))
             => CopiedNode(graphs', last', peer).name
                  \in ColocatedWith(CopiedNode(graphs', last', op))
    ]_vars

\* Node id of graph G2 is a Placeholder that graph G1 did not hold, with one
\* output of the data type and shape of tensor t of the graphs Gs
IsPlaceholderFor(Gs, G1, G2, id, t) ==
  /\ IsFreshNode(G1, G2, id)
  /\ NodeById(G2, id).op_type = "Placeholder"
  /\ NodeById(G2, id).outputs = <<TensorType(Gs, t)>>

\* C12: when a copy into another graph returns, for every node n of the view
\* and every position i at which n consumes a tensor t that no node of the
\* view produces, input i of the copy of n is the output of a Placeholder
\* created in the destination graph with the data type and shape of t
C12_CrossGraphBoundaryPlaceholder ==
  [][ (IsCopy(last') /\ last'.dst_graph # SRC) =>
        \A op \in Range(last'.ops) :
          /\ Len(CopiedNode(graphs', last', op).inputs) = Len(NodeById(graphs[SRC], op).inputs)
          /\ \A i \in DOMAIN NodeById(graphs[SRC], op).inputs :
               LET t  == NodeById(graphs[SRC], op).inputs[i]
                   t_ == CopiedNode(graphs', last', op).inputs[i]
               IN t.node \notin Range(last'.ops) =>
                    /\ CopyOfNode(last', op).graph = last'.dst_graph
                    /\ t_.graph = last'.dst_graph
                    /\ t_.value_index = 0
                    /\ IsPlaceholderFor(graphs, graphs[last'.dst_graph],
                                        graphs'[last'.dst_graph], t_.node, t)
    ]_vars

\* A copy of w alone into the other graph has returned: both of its inputs
\* come from outside the view
C12_Witness ==
  /\ IsCopy(last)
  /\ last.dst_graph = DST
  /\ Len(last.ops) = 1
  /\ Len(NodeById(last.before[SRC], last.ops[1]).inputs) = 2
  /\ \A i \in 1..2 :
       NodeById(last.before[SRC], last.ops[1]).inputs[i].node \notin Range(last.ops)

----------------------------------------------------------------------------
(* Properties of what graph_replace returns *)

\* The nodes that the graph_replace of the step copies: the nodes the two
\* walks share, completed by _add_control_flow_ops, read in graph G
SweptIntoCopy(G, l) ==
  Range(_add_control_flow_ops(G,
          get_walks_intersection_ops(G,
            [i \in DOMAIN l.replacement_ts |-> l.replacement_ts[i][1]],
            l.target_ts)).ops)

\* C13: a graph_replace that returns, returns one tensor for every target, in
\* the order of the targets: for a target whose producer was among the nodes
\* copied, the output of the same index of a new node of the producer's
\* type; for any other target, the target itself
C13_GraphReplaceReturnsCopyOrOriginal ==
  [][ (last'.op = "graph_replace" /\ last'.result = "ok") =>
        /\ Len(last'.ret) = Len(last'.target_ts)
        /\ \A i \in DOMAIN last'.target_ts :
             LET t == last'.target_ts[i]
                 r == last'.ret[i]
             IN IF t.node \in SweptIntoCopy(g, last')
                THEN /\ r.graph = SRC
                     /\ r.value_index = t.value_index
                     /\ IsFreshNode(g, graphs'[SRC], r.node)
                     /\ NodeById(graphs'[SRC], r.node).op_type = NodeById(g, t.node).op_type
                ELSE r = t
    ]_vars

\* A graph_replace of two targets has returned a new tensor for the first
\* and the second target itself
C13_Witness ==
  /\ last.op = "graph_replace"
  /\ last.result = "ok"
  /\ Len(last.target_ts) = 2
  /\ Len(last.ret) = 2
  /\ last.ret[1] # last.target_ts[1]
  /\ last.ret[2] = last.target_ts[2]

----------------------------------------------------------------------------
(* Properties of the lookups of a TransformerInfo *)

\* The last call is a lookup of a list of strings
IsLookupOfNames(l) ==
  /\ l.op \in {"transformed", "original"}
  /\ \A i \in DOMAIN l.top[1] : l.top[1][i].type = "str"

\* The items (original, transformed) of the node map of the info whose
\* original (side 1) or transformed (side 2) node has the name s
ItemsNamed(Gs, res_info, side, s) ==
  LET IsNamed(item) ==
        NodeById(Gs[IF side = 1 THEN res_info.graph ELSE res_info.graph_],
                 IF side = 1 THEN item[1] ELSE item[2].node).name = s
  IN SelectSeq(res_info.transformed_ops, IsNamed)

\* C14: transformed(s), s the name of a node, returns the copy of the
\* original node named s, and original(s) the original of the copy named s;
\* when no node of that side has the name the call returns what the
\* fallback returns for s, or nothing without a fallback; the call does not
\* raise
C14_LookupByName ==
  IsLookupOfNames(last) =>
    /\ last.ret[1].result = "ok"
    /\ Len(last.ret[1].ret) = Len(last.top[1])
    /\ \A i \in DOMAIN last.top[1] :
         LET s == last.top[1][i].value
             side == IF last.op = "transformed" THEN 1 ELSE 2
             items == ItemsNamed(graphs, last.info[1], side, s)
         IN last.ret[1].ret[i] =
              IF items = <<>> THEN (IF last.missing_fn THEN Some(s) ELSE None)
              ELSE IF side = 1 THEN Some(items[1][2])
              ELSE Some(NodeRef(last.info[1].graph, items[1][1]))

\* The last call is a lookup of a list of nodes and tensors
IsLookupOfElements(l) ==
  /\ l.op \in {"transformed", "original"}
  /\ \A i \in DOMAIN l.top[1] : l.top[1][i].type \in {"Node", "Tensor"}

\* The element is a node of the view that was copied, or an output of one
IsOriginalElement(l, x) ==
  x.value.graph = SRC /\ x.value.node \in Range(l.ops)

\* The element is the copy of a node of the view, or an output of one
IsCopiedElement(l, y) ==
  \E op \in Range(l.ops) :
     y.value.graph = CopyOfNode(l, op).graph /\ y.value.node = CopyOfNode(l, op).node

\* An element of the type of x with the value v
Like(x, v) == [type |-> x.type, value |-> v]

\* C15: on the info of a copy made with the default handlers, a lookup does
\* not raise and returns one result for every element it is given;
\* transformed(x) of an element x that was copied is an element y with
\* original(y) = x; original(y) of a copy y is an element x with
\* transformed(x) = y; for any other element the result is what the fallback
\* returns for it, or nothing without a fallback; and no two items of the
\* node map or of the tensor map have the same copy
C15_MappingIsBidirectional ==
  IsLookupOfElements(last) =>
    LET res_info == last.info[1]
    IN /\ last.ret[1].result = "ok"
       /\ Len(last.ret[1].ret) = Len(last.top[1])
       /\ \A i \in DOMAIN last.top[1] :
            LET x == last.top[1][i]
                r == last.ret[1].ret[i]
                missing == IF last.missing_fn THEN Some(x.value) ELSE None
            IN IF last.op = "transformed"
               THEN IF IsOriginalElement(last, x)
                    THEN /\ r # None
                         /\ IsCopiedElement(last, Like(x, r[1]))
                         /\ _original_elem(res_info, Like(x, r[1]), FALSE).ret = Some(x.value)
                    ELSE r = missing
               ELSE IF IsCopiedElement(last, x)
                    THEN /\ r # None
                         /\ IsOriginalElement(last, Like(x, r[1]))
                         /\ _transformed_elem(res_info, Like(x, r[1]), FALSE).ret = Some(x.value)
                    ELSE r = missing
       /\ \A i, j \in DOMAIN res_info.transformed_ops :
            res_info.transformed_ops[i][2] = res_info.transformed_ops[j][2] => i = j
       /\ \A i, j \in DOMAIN res_info.transformed_ts :
            res_info.transformed_ts[i][2] = res_info.transformed_ts[j][2] => i = j

\* original was called, with no fallback, on the nodes and tensors of the
\* graph that holds the copies of an in-place copy of four nodes: it found
\* the original of some and nothing for others
C15_Witness ==
  /\ IsLookupOfElements(last)
  /\ last.op = "original"
  /\ ~last.missing_fn
  /\ last.dst_graph = SRC
  /\ Len(last.ops) = 4
  /\ last.ret[1].result = "ok"
  /\ \E i \in DOMAIN last.top[1] : last.ret[1].ret[i] # None
  /\ \E i \in DOMAIN last.top[1] : last.ret[1].ret[i] = None

----------------------------------------------------------------------------
(* A call of a Transformer, input by input and node by node *)

\* The wire records of the graphs whose views are transformed: those of
\* CopyGraphDefs, a while loop whose Merge is listed before its Enter, and a
\* node k that follows an Enter listed after it, as is the input of the Enter
ResolveGraphDefs ==
  CopyGraphDefs \cup
    { <<LoopC, LoopMerge, LoopEnter, LoopSwitch, LoopExit, LoopBody, LoopNext>>,
      << NodeDef(<<"k">>, "Identity", NoAttrs, <<DataInput(<<"e">>, 0)>>, 1),
         LoopEnter, LoopC >> }

\* The views transformed, each as the list of the names of its nodes
ResolveViews ==
  CopyViews \cup { <<<<"k">>, <<"e">>, <<"c">>>> }

\* SubGraphView.remap_inputs(new_input_indices): the view with the inputs of
\* these positions as its inputs
remap_inputs(sgv, new_input_indices) ==
  [sgv EXCEPT !.inputs = [i \in DOMAIN new_input_indices |->
                            sgv.inputs[new_input_indices[i]]]]

\* Where the call of the Transformer is, its working state, the nodes it has
\* still to copy (the first is the one it is at), the inputs resolved for
\* that node so far, and the last call of _transformed_t with what it
\* returned
NoResolve ==
  [ op          |-> "init",
    pc          |-> "idle",
    calls       |-> 0,
    info        |-> None,
    sorted_ops  |-> <<>>,
    new_inputs  |-> <<>>,
    t           |-> None,
    consumer_op |-> 0,
    ret         |-> None ]

InitResolve ==
  /\ \E graph_def \in ResolveGraphDefs :
        graphs = [gid \in GraphIds |->
                    IF gid = SRC THEN GraphFromDef(SRC, graph_def)
                    ELSE EmptyGraph(gid)]
  /\ last = NoResolve

\* Transformer.__call__(sgv, dst_graph, "") up to the loop of _copy_ops, with
\* the default handlers; sgv is the view of the nodes of these names, with
\* all of its inputs or remapped to none of them
BeginCall(names, dst_graph, hide_inputs) ==
  /\ last.pc = "idle"
  /\ last.calls < MaxCopies
  /\ \A i \in DOMAIN names : contains_node(graphs[SRC], names[i])
  /\ LET ops == [i \in DOMAIN names |-> NodeByName(graphs[SRC], names[i]).id_in_graph]
         view == make_view(graphs[SRC], ops)
         sgv == IF hide_inputs THEN remap_inputs(view, <<>>) ELSE view
         info == TmpInfo(graphs, sgv, dst_graph, scope_finalize(<<>>),
                         scope_finalize(<<>>),
                         "replace_t_with_placeholder_handler", <<>>)
     IN last' = [NoResolve EXCEPT
                   !.op = "__call__", !.pc = "_copy_ops",
                   !.calls = last.calls + 1, !.info = Some(info),
                   !.sorted_ops = SortedIds(Range(info.sgv.ops))]
  /\ UNCHANGED graphs

\* The node that _copy_ops is at
CurrentOp == NodeById(graphs[SRC], Head(last.sorted_ops))

\* self._transformed_t(info, t, op) for the next input t of the node op that
\* _copy_ops is at
TransformedT ==
  /\ last.pc = "_copy_ops"
  /\ last.sorted_ops # <<>>
  /\ Len(last.new_inputs) < Len(CurrentOp.inputs)
  /\ LET t == CurrentOp.inputs[Len(last.new_inputs) + 1]
         op == Head(last.sorted_ops)
     IN \E r \in {_transformed_t(last.info[1], t, op, {})} :
          /\ graphs' = r.info.graphs
          /\ last' = [last EXCEPT
                        !.op = "_transformed_t",
                        !.pc = IF r.info.result = "ok" THEN "_copy_ops" ELSE "raised",
                        !.info = Some(r.info),
                        !.new_inputs = IF r.info.result = "ok"
                                       THEN Append(@, r.ret[1]) ELSE @,
                        !.t = Some(t), !.consumer_op = op, !.ret = r.ret]

\* The rest of the body of the loop of _copy_ops for the node op, once
\* new_inputs is complete: transform_op_handler and the records in
\* transformed_ops and transformed_ts
TransformOp ==
  /\ last.pc = "_copy_ops"
  /\ last.sorted_ops # <<>>
  /\ Len(last.new_inputs) = Len(CurrentOp.inputs)
  /\ LET info == last.info[1]
         op == Head(last.sorted_ops)
     IN \E c \in {copy_op_handler(info, op, last.new_inputs)} :
        \E info1 \in {IF c.info.result # "ok" THEN c.info
                      ELSE IF info.graph = info.graph_ /\ c.op_ = op
                      THEN Raise(c.info, "ValueError")
                      ELSE [c.info EXCEPT
                              !.transformed_ops = Put(@, op, NodeRef(info.graph_, c.op_)),
                              !.transformed_ts = RecordOutputs(@,
                                 OutputTensors(NodeById(c.info.graphs[info.graph], op)),
                                 OutputTensors(NodeById(c.info.graphs[info.graph_], c.op_)))]} :
          /\ graphs' = info1.graphs
          /\ last' = [last EXCEPT
                        !.op = "transform_op_handler",
                        !.pc = IF info1.result = "ok" THEN "_copy_ops" ELSE "raised",
                        !.info = Some(info1),
                        !.sorted_ops = Tail(@), !.new_inputs = <<>>]

\* The rest of Transformer.__call__ after the loop of _copy_ops
FinishCall ==
  /\ last.pc = "_copy_ops"
  /\ last.sorted_ops = <<>>
  /\ \E info2 \in {_finalize_cycles(last.info[1])} :
     \E info3 \in {IF info2.result # "ok" THEN info2
                   ELSE _connect_control_inputs(info2)} :
       /\ graphs' = info3.graphs
       /\ last' = [last EXCEPT
                     !.op = "return",
                     !.pc = IF info3.result = "ok" THEN "idle" ELSE "raised",
                     !.info = Some(info3)]

\* The caller goes on after the call has raised
Raised ==
  /\ last.pc = "raised"
  /\ last' = [last EXCEPT !.op = "raised", !.pc = "idle"]
  /\ UNCHANGED graphs

NextResolve ==
  \/ \E names \in ResolveViews, dst_graph \in GraphIds, hide_inputs \in BOOLEAN :
        BeginCall(names, dst_graph, hide_inputs)
  \/ TransformedT
  \/ TransformOp
  \/ FinishCall
  \/ Raised

SpecResolve == InitResolve /\ [][NextResolve]_vars

\* C16: a call of _transformed_t for tensor t and consuming node op returns,
\* and takes the first of these cases that applies. (1) t has a counterpart
\* in transformed_ts: that counterpart. (2) t is an input of the view: what
\* the default external-input handler makes, a new Placeholder of the type
\* of t in the destination graph. (3) the producer of t is a node of the
\* view: a stand-in, and the call appends the one triple (t, stand-in, op)
\* to tmp_cyclic_ts. (4) otherwise what the default hidden-input handler
\* gives: t itself within one graph, a new Placeholder across graphs. In the
\* cases (1), (2) and (4) tmp_cyclic_ts is left as it was
C16_ResolveInputCases ==
  [][ last'.op = "_transformed_t" =>
        LET info  == last.info[1]
            info_ == last'.info[1]
            t     == last'.t[1]
            ret   == last'.ret
            NoTriple == info_.tmp_cyclic_ts = info.tmp_cyclic_ts
            IsNewPlaceholder ==
              /\ ret # None
              /\ ret[1].graph = info.graph_
              /\ ret[1].value_index = 0
              /\ IsPlaceholderFor(info.graphs, info.graphs[info.graph_],
                                  info_.graphs[info.graph_], ret[1].node, t)
        IN /\ info_.result = "ok"
           /\ IF t \in Keys(info.transformed_ts)
              THEN /\ ret = Some(Get(info.transformed_ts, t))
                   /\ NoTriple
              ELSE IF t \in Range(info.sgv.inputs)
              THEN IsNewPlaceholder /\ NoTriple
              ELSE IF t.graph = info.graph /\ t.node \in Range(info.sgv.ops)
              THEN /\ ret # None
                   /\ info_.tmp_cyclic_ts =
                        Append(info.tmp_cyclic_ts, <<t, ret[1], last'.consumer_op>>)
              ELSE /\ IF info.graph = info.graph_ THEN ret = Some(t)
                      ELSE IsNewPlaceholder
                   /\ NoTriple
    ]_vars

----------------------------------------------------------------------------
(* Properties of the inputs and control inputs of the copies *)

\* The name of the node begins, after the scopes it is in, with geph_tmp
IsTemporaryPlaceholder(n) ==
  /\ n.op_type = "Placeholder"
  /\ \E k \in 0..Len(n.name) :
        StartsWith(DropFirst(n.name, k), <<"geph_tmp">>)

\* C17: when a copy returns, every copy has as many inputs as its original,
\* every input of an original that a node of the view produces has, at the
\* same position of the copy, the counterpart recorded for it in
\* transformed_ts, also where the input was first wired to a stand-in, and
\* no copy consumes a geph_tmp placeholder
C17_CopiesConsumeCounterparts ==
  [][ IsCopy(last') =>
        \A op \in Range(last'.ops) :
          LET original_op == NodeById(graphs[SRC], op)
              op_ == CopiedNode(graphs', last', op)
          IN /\ Len(op_.inputs) = Len(original_op.inputs)
             /\ \A i \in DOMAIN original_op.inputs :
                  /\ original_op.inputs[i].node \in Range(last'.ops) =>
                       op_.inputs[i] = Get(last'.info[1].transformed_ts,
                                           original_op.inputs[i])
                  /\ ~IsTemporaryPlaceholder(
                        NodeById(graphs'[op_.inputs[i].graph], op_.inputs[i].node))
    ]_vars

\* What the default control-input handler makes of the control inputs of a
\* node, in their order: for one that is a node of the view its copy, for
\* one outside the view itself when the copy stays in the graph, nothing
\* when the copy goes to another graph
ExpectedControlInputs(l, control_inputs) ==
  LET Kept(ci) == ci.node \in Range(l.ops) \/ l.dst_graph = SRC
      kept == SelectSeq(control_inputs, Kept)
  IN [i \in DOMAIN kept |->
        IF kept[i].node \in Range(l.ops) THEN CopyOfNode(l, kept[i].node)
        ELSE kept[i]]

\* C18: when a copy returns, the control inputs of the copy of every node of
\* the view are, in the order of the control inputs of the original, the
\* copies of those that are nodes of the view, those outside the view
\* themselves when source and destination graph are the same, and none for
\* those outside the view when the graphs differ
C18_ControlInputsOfCopies ==
  [][ IsCopy(last') =>
        \A op \in Range(last'.ops) :
           CopiedNode(graphs', last', op).control_inputs
             = ExpectedControlInputs(last', NodeById(graphs[SRC], op).control_inputs)
    ]_vars

\* A copy of w and y within the graph has returned: of the control inputs w
\* and v of y the first is in the view and the second is not
C18_Witness ==
  /\ IsCopy(last)
  /\ last.dst_graph = SRC
  /\ Len(last.ops) = 2
  /\ \E op \in Range(last.ops) :
        /\ Len(NodeById(last.before[SRC], op).control_inputs) = 2
        /\ NodeById(last.before[SRC], op).control_inputs[1].node \in Range(last.ops)
        /\ NodeById(last.before[SRC], op).control_inputs[2].node \notin Range(last.ops)
        /\ Len(CopiedNode(graphs, last, op).control_inputs) = 2

----------------------------------------------------------------------------
(* The completion of the nodes to copy, in graphs with a while loop and
   colocation groups *)

\* The wire records of the graphs whose node lists are completed; z follows
\* a and is colocated with the body i of the while loop; f follows the
\* input c of the loop and o follows its Exit, with no colocation
ControlFlowGraphDefs ==
  LET a == NodeDef(<<"a">>, "Const", NoAttrs, <<>>, 1)
      z == NodeDef(<<"z">>, "Identity", ColocAttr(<<<<"i">>>>),
                   <<DataInput(<<"a">>, 0)>>, 1)
      f == NodeDef(<<"f">>, "Identity", NoAttrs, <<DataInput(<<"c">>, 0)>>, 1)
      o == NodeDef(<<"o">>, "Identity", NoAttrs, <<DataInput(<<"x">>, 0)>>, 1)
  IN PeerOrders \cup
       { <<a, z>> \o WhileLoop,
         WhileLoop \o <<a, z>>,
         WhileLoop \o <<f, o>> }

\* Largest number of nodes in the list handed to _add_control_flow_ops
MaxOps == 2

\* The lists of nodes of graph G, without repetition, that are handed to
\* _add_control_flow_ops
OpsLists(G) ==
  {ops \in UNION {[1..n -> NodeIds(G)] : n \in 1..MaxOps} :
     \A i, j \in DOMAIN ops : ops[i] = ops[j] => i = j}

\* The list _add_control_flow_ops was last called with, how the call ended,
\* and the list afterwards
NoControlFlow ==
  [ op     |-> "init",
    result |-> "ok",
    ops    |-> <<>>,
    ret    |-> <<>> ]

InitControlFlow ==
  /\ \E graph_def \in ControlFlowGraphDefs :
        graphs = [gid \in GraphIds |->
                    IF gid = SRC THEN GraphFromDef(SRC, graph_def)
                    ELSE EmptyGraph(gid)]
  /\ last = NoControlFlow

\* _add_control_flow_ops(ops, control_ios) on a list of nodes of the graph
AddControlFlowOps(ops) ==
  \E r \in {_add_control_flow_ops(graphs[SRC], ops)} :
    /\ graphs' = [graphs EXCEPT ![SRC] = r.G]
    /\ last' = [NoControlFlow EXCEPT !.op = "_add_control_flow_ops",
                                     !.result = r.result, !.ops = ops,
                                     !.ret = r.ops]

NextControlFlow ==
  \E ops \in OpsLists(graphs[SRC]) : AddControlFlowOps(ops)

SpecControlFlow == InitControlFlow /\ [][NextControlFlow]_vars

\* The nodes of the while loop of the graph G: those from the Enter to the
\* NextIteration and the Exit
LoopNodes(G) ==
  {id \in NodeIds(G) :
     NodeById(G, id).name \in LoopNodeNames \cup {<<"e">>, <<"x">>}}

\* C19: _add_control_flow_ops returns, the list afterwards begins with the
\* list it was given, and the set of its nodes holds the whole while loop
\* when it holds a node of it, and the whole of every colocation group that
\* it holds a node of
C19_CompletedOpsAreClosed ==
  last.op = "_add_control_flow_ops" =>
    /\ last.result = "ok"
    /\ Len(last.ret) >= Len(last.ops)
    /\ \A i \in DOMAIN last.ops : last.ret[i] = last.ops[i]
    /\ Range(last.ret) \cap LoopNodes(g) # {} => LoopNodes(g) \subseteq Range(last.ret)
    /\ \A group \in colocation_groups(g) :
         group \cap Range(last.ret) # {} => group \subseteq Range(last.ret)

----------------------------------------------------------------------------
(* The caches of the frame analysis under calls that change the node table *)

NextCaches ==
  \/ \E name \in {<<"a">>} : AddNode(name, TRUE)
  \/ \E node_def \in NodeDefs : AddNodeFromNodeDef(node_def)
  \/ \E value \in BOOLEAN : SetFrozen(value)
  \/ IncrementVersionCounter
  \/ \E id \in 1..MaxNodes : NodeToFrameNames(id)
  \/ \E frame_name \in {"loop1", NoFrame} : FrameNameToNodes(frame_name)

SpecCaches == Init /\ [][NextCaches]_vars

\* The cached maps of graph G are those the analysis makes of the node table
\* G has now
CachesAreCurrent(G) ==
  \E s \in {FrameLoop(G, FrameStart(G))} :
    /\ s.result = "ok"
    /\ G.node_to_frame_names = Some(s.new_node_to_frame_names)
    /\ G.frame_name_to_nodes = Some(s.new_frame_name_to_nodes)

\* The step is a query of the frame analysis on a graph whose caches are
\* populated
IsCachedFrameQuery ==
  /\ last'.op \in {"node_to_frame_names", "frame_name_to_nodes"}
  /\ g.node_to_frame_names # None

\* C20: whenever the node-to-frame and frame-to-nodes caches of the graph are
\* populated they are what the analysis computes from the current node table,
\* and a query made while they are populated leaves them as they are
C20_FrameCachesNeverStale ==
  /\ [](g.node_to_frame_names # None => CachesAreCurrent(g))
  /\ [][IsCachedFrameQuery =>
          /\ g'.node_to_frame_names = g.node_to_frame_names
          /\ g'.frame_name_to_nodes = g.frame_name_to_nodes]_vars

----------------------------------------------------------------------------
(* Properties of the scopes and of the failures of a Transformer call *)

\* C21: a copy called with a destination scope that is not empty, and
\* without reuse_dst_scope, uses a destination scope under which no node
\* that the destination graph held before the call is named
C21_DestinationScopeIsFresh ==
  [][(last'.op = "copy" /\ last'.dst_scope # <<>>) =>
       \A n \in Range(Nodes(graphs[last'.info[1].graph_])) :
         ~StartsWith(n.name, last'.info[1].scope_)]_vars

----------------------------------------------------------------------------
(* Copies of views of a graph whose nodes are named under a scope, and
   outside it *)

\* The wire records of the graphs copied from a source scope: s/f follows
\* s/a, s/h follows s/f and is colocated with g, and g is not under s/
ScopedGraphDefs ==
  LET a == NodeDef(<<"s", "/", "a">>, "Const", NoAttrs, <<>>, 1)
      f == NodeDef(<<"s", "/", "f">>, "Identity", NoAttrs,
                   <<DataInput(<<"s", "/", "a">>, 0)>>, 1)
      c == NodeDef(<<"g">>, "Const", NoAttrs, <<>>, 1)
      h == NodeDef(<<"s", "/", "h">>, "Identity", ColocAttr(<<<<"g">>>>),
                   <<DataInput(<<"s", "/", "f">>, 0)>>, 1)
  IN { <<a, f, c, h>>, <<h, c, f, a>>, <<c, a, f, h>> }

\* What the last call was, with what it was called on which graphs, and how
\* it ended
NoScopedCopy ==
  [ op        |-> "init",
    calls     |-> 0,
    result    |-> "ok",
    before    |-> <<>>,
    ops       |-> <<>>,
    dst_graph |-> SRC,
    dst_scope |-> <<>>,
    src_scope |-> <<>> ]

InitScoped ==
  /\ \E graph_def \in ScopedGraphDefs :
        graphs = [gid \in GraphIds |->
                    IF gid = SRC THEN GraphFromDef(SRC, graph_def)
                    ELSE EmptyGraph(gid)]
  /\ last = NoScopedCopy

\* copy(ops, dst_graph, dst_scope, src_scope), ops being the nodes of these
\* names of the graph SRC
CopyScoped(names, dst_graph, dst_scope, src_scope) ==
  /\ last.calls < MaxCopies
  /\ LET ops == [i \in DOMAIN names |-> NodeByName(graphs[SRC], names[i]).id_in_graph]
     IN \E r \in {copy(graphs, SRC, ops, dst_graph, dst_scope, src_scope, FALSE)} :
          /\ graphs' = r.graphs
          /\ last' = [NoScopedCopy EXCEPT
                        !.op = "copy", !.calls = last.calls + 1,
                        !.result = r.result, !.before = graphs, !.ops = ops,
                        !.dst_graph = IF dst_graph = None THEN SRC ELSE dst_graph[1],
                        !.dst_scope = dst_scope, !.src_scope = src_scope]

NextScoped ==
  \E names \in { <<<<"g">>>>,
                 <<<<"s", "/", "a">>, <<"g">>>>,
                 <<<<"s", "/", "f">>, <<"g">>>>,
                 <<<<"s", "/", "h">>>>,
                 <<<<"s", "/", "a">>, <<"s", "/", "f">>>>,
                 <<<<"s", "/", "a">>, <<"s", "/", "f">>, <<"s", "/", "h">>>> },
     dst_graph \in {None, Some(DST)},
     dst_scope \in {<<>>, <<"t">>},
     src_scope \in {<<>>, <<"s">>} :
     CopyScoped(names, dst_graph, dst_scope, src_scope)

SpecScoped == InitScoped /\ [][NextScoped]_vars

\* C22: a copy from a source scope that fails because the name of a node of
\* the view, or a name in its colocation attribute, is not under the source
\* scope leaves the destination graph with the nodes and the version it had
\* before the call
C22_ScopeFailureCommitsNothing ==
  (last.op = "copy" /\ last.result = "ValueError" /\ last.src_scope # <<>>) =>
    /\ Nodes(graphs[last.dst_graph]) = Nodes(last.before[last.dst_graph])
    /\ graphs[last.dst_graph].version = last.before[last.dst_graph].version

\* C23: every call of _transformed_t that _copy_ops makes returns or raises
\* an error of its own: none recurses without end
C23_ResolveInputTerminates ==
  last.op = "_transformed_t" => last.info[1].result # "RecursionError"

\* C24: for a list of nodes none of which is a node of the while loop, in a
\* graph without colocation groups, _add_control_flow_ops adds no node
C24_NothingAddedOutsideLoops ==
  (/\ last.op = "_add_control_flow_ops"
   /\ colocation_groups(g) = {}
   /\ Range(last.ops) \cap LoopNodes(g) = {}) =>
    Range(last.ret) = Range(last.ops)

----------------------------------------------------------------------------
(* Frame analysis of a while loop that is entered by two Enter nodes *)

\* The wire records of the graphs analysed: the while loop, whose body adds
\* the loop variable and a constant k that enters the loop through e2, an
\* Enter of the same frame; k and e2 are listed at any two positions
TwoEnterGraphDefs ==
  LET k  == NodeDef(<<"k">>, "Const", NoAttrs, <<>>, 1)
      e2 == NodeDef(<<"e", "2">>, "Enter", FrameAttr("loop1"),
                    <<DataInput(<<"k">>, 0)>>, 1)
      i  == NodeDef(<<"i">>, "Add", NoAttrs,
                    <<DataInput(<<"s">>, 1), DataInput(<<"e", "2">>, 0)>>, 1)
      loop == <<LoopC, LoopEnter, LoopMerge, LoopSwitch, LoopExit, i, LoopNext>>
  IN { Interleave(loop, b, at) :
         b \in {<<k, e2>>, <<e2, k>>},
         at \in {x \in SUBSET (1..9) : Cardinality(x) = 2} }

InitTwoEnters ==
  /\ \E graph_def \in TwoEnterGraphDefs :
        graphs = [gid \in GraphIds |->
                    IF gid = SRC THEN GraphFromDef(SRC, graph_def)
                    ELSE EmptyGraph(gid)]
  /\ last = NoCall

SpecTwoEnters == InitTwoEnters /\ [][NextFrames]_vars

\* No element is at two positions of the list
HasNoRepetition(list) ==
  \A i, j \in DOMAIN list : list[i] = list[j] => i = j

\* C25: the frame analysis ends without an error, takes every node from the
\* queue at most once, and lists every node at most once under every frame
\* name
C25_FrameAnalysisVisitsOnce ==
  g.frame_name_to_nodes # None =>
    /\ \E s \in {FrameLoop(g, FrameStart(g))} :
         s.result = "ok" /\ HasNoRepetition(s.order)
    /\ \A frame_name \in DOMAIN g.frame_name_to_nodes[1] :
         HasNoRepetition(g.frame_name_to_nodes[1][frame_name])

----------------------------------------------------------------------------
(* Properties of the edges of the copies made in another graph *)

\* The call of the Transformer has returned, and it copied into a graph
\* that is not the graph of the view
IsCopyAcrossGraphs(l) ==
  /\ l.op = "return"
  /\ l.pc = "idle"
  /\ l.info[1].graph_ # l.info[1].graph

\* C26: after a copy with the default handlers into a graph that is not the
\* graph of the view, every data input of every copy is an output of a node
\* of the destination graph and every control input is a node of it
C26_NoEdgeCrossesGraphs ==
  IsCopyAcrossGraphs(last) =>
    \A i \in DOMAIN last.info[1].transformed_ops :
      \E op_ \in {NodeById(graphs[last.info[1].graph_],
                            last.info[1].transformed_ops[i][2].node)} :
        /\ \A k \in DOMAIN op_.inputs :
             /\ op_.inputs[k].graph = last.info[1].graph_
             /\ op_.inputs[k].node \in NodeIds(graphs[last.info[1].graph_])
        /\ \A k \in DOMAIN op_.control_inputs :
             /\ op_.control_inputs[k].graph = last.info[1].graph_
             /\ op_.control_inputs[k].node \in NodeIds(graphs[last.info[1].graph_])

\* A copy into another graph has returned whose view has a hidden input and
\* an input that was not copied yet when its consumer was
C26_Witness ==
  /\ IsCopyAcrossGraphs(last)
  /\ last.info[1].sgv.inputs = <<>>
  /\ \E i \in DOMAIN last.info[1].sgv.ops :
       \E t \in Range(NodeById(graphs[SRC], last.info[1].sgv.ops[i]).inputs) :
         t.node \notin Range(last.info[1].sgv.ops)
  /\ last.info[1].tmp_cyclic_ts # <<>>
====
